---------------------------- MODULE Spec2Model ----------------------------
(***************************************************************************)
(* A model of the fastwise curriculum graph: the batch ingestion pipeline  *)
(* (services/data_population_service.py), the upsert engine                *)
(* (repositories/setup_repository.py), the transaction primitive           *)
(* (core/database.py) and the query / progress layer                       *)
(* (repositories/question_repository.py, student_repository.py).           *)
(*                                                                         *)
(* Texts that the code trims are sequences of one-character strings, so    *)
(* that strip() is computed.  Identifiers the code never trims are TLA+    *)
(* strings.  A Python dict is a function from its keys to its values; a    *)
(* key the dict lacks is outside the function's DOMAIN.  The property      *)
(* graph is a sequence of nodes (a node's identity is its index) and a bag *)
(* of relationships, so that duplicates can be represented.                *)
(***************************************************************************)
EXTENDS Integers, Sequences, FiniteSets, Bags, TLC

VARIABLES
    driver,            \* DatabaseManager._driver: "None" or "open"
    conn_error,        \* the exception the last initialize_connection raised
    reachable,         \* whether the store answers (verify_connectivity / session)
    graph,             \* the committed contents of the store
    clock,             \* the value datetime() returns
    input,             \* the dataset the caller holds (file content or in-memory list)
    runs,              \* number of populate_* calls made so far
    pc,                \* position of the ingest call
    entry,             \* the populate_* method called: "file" or "list"
    file_kind,         \* what the call found at file_path ("" for a list)
    data,              \* _process_data_in_batches: data
    batch_size,        \* _process_data_in_batches: batch_size
    valid_data,        \* validation_result['valid_items']
    invalid_items,     \* validation_result['invalid_items']
    invalid_item_ids,  \* validation_result['invalid_item_ids']
    i,                 \* loop variable of range(0, len(valid_data), batch_size)
    batch,             \* valid_data[i:i + batch_size]
    j,                 \* 1-based position of the for loop of _process_batch
    processed,         \* _process_batch: processed
    failed,            \* _process_batch: failed
    failed_ids,        \* _process_batch: failed_ids
    processed_items,   \* _process_data_in_batches: processed_items
    failed_items,      \* _process_data_in_batches: failed_items
    failed_item_ids,   \* _process_data_in_batches: failed_item_ids
    stats,             \* the report the call returned (<<>> before it returns)
    raised,            \* the exception the call raised ("" when none)
    txlog,             \* every call of execute_transaction so far, in order
    graph0,            \* the store when the current populate call began
    prev,              \* the report of the previous populate call
    result,            \* rows returned by the last query
    cq,                \* the complete_question call: its arguments and position
    reply,             \* what the last lookup of the query layer returned
    schema,            \* the schema of the store and the last setup call
    writers,           \* the concurrent item transactions and their positions
    app                \* main: its position, and the drivers created and not closed

vars == <<driver, conn_error, reachable, graph, clock, input, runs, pc, entry,
          file_kind, data, batch_size, valid_data, invalid_items,
          invalid_item_ids, i, batch, j, processed, failed, failed_ids,
          processed_items, failed_items, failed_item_ids, stats, raised, txlog,
          graph0, prev, result, cq, reply, schema, writers, app>>

\* groups of variables, for the frame conditions
connVars    == <<driver, conn_error, reachable>>
callArgs    == <<entry, file_kind, data, batch_size>>
validation  == <<valid_data, invalid_items, invalid_item_ids>>
batchLocals == <<batch, j, processed, failed, failed_ids>>
totals      == <<processed_items, failed_items, failed_item_ids>>
apiVars     == <<cq, reply, schema, writers, app>>
callVars    == <<runs, pc, callArgs, validation, i, batchLocals, totals, stats,
                 raised, txlog, graph0, prev>>

-----------------------------------------------------------------------------
(* Bounds of the model.                                                    *)
MaxItems == 2      \* longest input list
MaxBatch == 2      \* largest batch_size tried
MaxRuns  == 2      \* populate_* calls in one behaviour
MaxClock == 1      \* last instant of the clock

-----------------------------------------------------------------------------
(* Python values.                                                          *)

\* JSON null / Python None where a text is expected.  Texts are sequences of
\* one-character strings, so no text equals it.
None == <<"None">>

Whitespace == {" "}

RECURSIVE lstrip(_)
lstrip(s) == IF s # <<>> /\ Head(s) \in Whitespace THEN lstrip(Tail(s)) ELSE s

RECURSIVE rstrip(_)
rstrip(s) ==
    IF s # <<>> /\ s[Len(s)] \in Whitespace
    THEN rstrip(SubSeq(s, 1, Len(s) - 1)) ELSE s

\* str.strip()
strip(s) == rstrip(lstrip(s))

\* dict.get(key, default)
Get(d, key, default) == IF key \in DOMAIN d THEN d[key] ELSE default

Range(s) == {s[n] : n \in DOMAIN s}


Min(a, b) == IF a < b THEN a ELSE b


-----------------------------------------------------------------------------
(* The property graph and the Cypher clauses the queries use.              *)

EmptyGraph == [nodes |-> <<>>, rels |-> EmptyBag]

HasProp(n, key) == key \in DOMAIN n.props

\* MATCH (n:label {key: val})
MatchNodes(g, label, key, val) ==
    {n \in DOMAIN g.nodes :
        /\ g.nodes[n].label = label
        /\ HasProp(g.nodes[n], key)
        /\ g.nodes[n].props[key] = val}

\* MATCH (n:label)
NodesOf(g, label) == {n \in DOMAIN g.nodes : g.nodes[n].label = label}

\* CREATE in the place of MERGE: a node is made whether or not one matches
MergeNodeAlways(g, label, key, val) ==
    [g EXCEPT !.nodes = Append(@, [label |-> label, props |-> (key :> val)])]

\* MERGE (n:label {key: val}): create the node when no node matches
MergeNode(g, label, key, val) ==
    IF MatchNodes(g, label, key, val) = {}
    THEN [g EXCEPT !.nodes = Append(@, [label |-> label, props |-> (key :> val)])]
    ELSE g

\* SET n.k = v, ... on every node of ns; p maps the keys set to their values
SetProps(g, ns, p) ==
    [g EXCEPT !.nodes =
        [n \in DOMAIN @ |->
            IF n \in ns THEN [@[n] EXCEPT !.props = p @@ @] ELSE @[n]]]

\* coalesce on every key: a property the node has keeps its value
SetPropsKeepOld(g, ns, p, now) ==
    [g EXCEPT !.nodes =
        [n \in DOMAIN @ |->
            IF n \in ns
            THEN [@[n] EXCEPT !.props =
                    @ @@ (p @@ [created_at |-> now, updated_at |-> now])]
            ELSE @[n]]]

\* SET n.created_at = coalesce(n.created_at, datetime()), n.updated_at = datetime()
\* together with the other keys of p
SetPropsCoalesce(g, ns, p, now) ==
    [g EXCEPT !.nodes =
        [n \in DOMAIN @ |->
            IF n \in ns
            THEN [@[n] EXCEPT !.props =
                    (p @@ [created_at |-> IF "created_at" \in DOMAIN @
                                          THEN @.created_at ELSE now,
                           updated_at |-> now]) @@ @]
            ELSE @[n]]]

\* the relationships of a type from node a to node b
MatchRels(g, type, a, b) ==
    {r \in BagToSet(g.rels) : r.type = type /\ r.src = a /\ r.dst = b}

\* CREATE in the place of MERGE: an edge is made whether or not one is there
MergeRelAlways(g, type, a, b) ==
    [g EXCEPT !.rels =
        @ (+) SetToBag({[type |-> type, src |-> a, dst |-> b, props |-> <<>>]})]

\* MERGE (a)-[:type]->(b) for one row (a, b)
MergeRel(g, type, a, b) ==
    IF MatchRels(g, type, a, b) = {}
    THEN [g EXCEPT !.rels =
            @ (+) SetToBag({[type |-> type, src |-> a, dst |-> b, props |-> <<>>]})]
    ELSE g

\* MERGE (a)-[:type]->(b) for every row of the two MATCH clauses
RECURSIVE MergeRels(_, _, _)
MergeRels(g, type, rows) ==
    IF rows = {} THEN g
    ELSE LET row == CHOOSE x \in rows : TRUE
         IN  MergeRels(MergeRel(g, type, row[1], row[2]), type, rows \ {row})

\* the number of relationships of bag B that are among the records S
RECURSIVE SumCopies(_, _)
SumCopies(B, S) ==
    IF S = {} THEN 0
    ELSE LET r == CHOOSE x \in S : TRUE
         IN  CopiesIn(r, B) + SumCopies(B, S \ {r})

\* SET r.timestamp = datetime() on the relationships of a type between the rows
SetRelTimestamp(g, type, rows, now) ==
    LET upd(r) == IF r.type = type /\ <<r.src, r.dst>> \in rows
                  THEN [r EXCEPT !.props = [timestamp |-> now] @@ @]
                  ELSE r
        old    == BagToSet(g.rels)
    IN  [g EXCEPT !.rels =
            [x \in {upd(r) : r \in old} |->
                SumCopies(g.rels, {r \in old : upd(r) = x})]]

-----------------------------------------------------------------------------
(* The upsert engine: repositories/setup_repository.py.  A step works on   *)
(* st = [g |-> graph as the transaction sees it, err |-> "" or the         *)
(* exception raised]; a step that finds err set does nothing.              *)

\* the required fields without the title
required_fields_no_title ==
    <<"id", "question", "difficulty", "step_no", "sub_step_no", "sl_no">>

required_fields ==
    <<"id", "question_title", "question", "difficulty",
      "step_no", "sub_step_no", "sl_no">>

missing_fields(item) ==
    SelectSeq(required_fields, LAMBDA f : f \notin DOMAIN item)

\* raises DataValidationError when a required field is missing
_validate_question_data(item) ==
    IF missing_fields(item) # <<>> THEN "DataValidationError" ELSE ""

_create_question_node(st, item, now) ==
    IF st.err # "" THEN st
    ELSE IF ~({"id", "question_title", "question", "difficulty",
               "step_no", "sub_step_no", "sl_no"} \subseteq DOMAIN item)
    THEN [st EXCEPT !.err = "KeyError"]      \* item['...'] of a missing key
    ELSE LET g1 == MergeNode(st.g, "Question", "id", item.id)
             qs == MatchNodes(g1, "Question", "id", item.id)
         IN  [st EXCEPT !.g =
                SetProps(g1, qs,
                    [question_title  |-> item.question_title,
                     question        |-> item.question,
                     difficulty      |-> item.difficulty,
                     step_number     |-> item.step_no,
                     sub_step_number |-> item.sub_step_no,
                     sequence_number |-> item.sl_no,
                     created_at      |-> now,
                     updated_at      |-> now])]

\* one pass of a "for name in names" loop that merges a node of the label and
\* links the question to it
LinkNamed(g, item, label, type, name, now) ==
    LET g1 == MergeNode(g, label, "name", strip(name))
        g2 == SetPropsCoalesce(g1, MatchNodes(g1, label, "name", strip(name)),
                               <<>>, now)
        qs == MatchNodes(g2, "Question", "id", item.id)
        cs == MatchNodes(g2, label, "name", strip(name))
    IN  MergeRels(g2, type, qs \X cs)

RECURSIVE LinkAll(_, _, _, _, _, _)
LinkAll(g, item, label, type, names, now) ==
    IF names = <<>> THEN g
    ELSE LET name == Head(names)
             \* if concept_name and concept_name.strip():
             g1 == IF name # None /\ name # <<>> /\ strip(name) # <<>>
                   THEN LinkNamed(g, item, label, type, name, now)
                   ELSE g
         IN  LinkAll(g1, item, label, type, Tail(names), now)

\* the list the standard-concept step reads
StandardConceptSource(item) == Get(item, "sub_concepts", <<>>)

_create_standard_concepts(st, item, now) ==
    IF st.err # "" THEN st
    ELSE [st EXCEPT !.g = LinkAll(@, item, "Concept", "INVOLVES_CONCEPT",
                                  StandardConceptSource(item), now)]

_create_subconcepts(st, item, now) ==
    IF st.err # "" THEN st
    ELSE [st EXCEPT !.g = LinkAll(@, item, "SubConcept", "INVOLVES_SUBCONCEPT",
                                  Get(item, "sub_concepts", <<>>), now)]

\* one pass of the loop over the approaches; None.strip() raises AttributeError
ApproachStep(st, item, approach, now) ==
    LET name == Get(approach, "approach_name", <<>>)
        expl == Get(approach, "explanation", <<>>)
    IN  IF name = None \/ expl = None THEN [st EXCEPT !.err = "AttributeError"]
        ELSE IF strip(name) = <<>> THEN st
        ELSE LET g1 == MergeNode(st.g, "SolutionApproach", "name", strip(name))
                 g2 == SetPropsCoalesce(g1,
                          MatchNodes(g1, "SolutionApproach", "name", strip(name)),
                          [explanation |-> strip(expl)], now)
                 qs == MatchNodes(g2, "Question", "id", item.id)
                 sa == MatchNodes(g2, "SolutionApproach", "name", strip(name))
             IN  [st EXCEPT !.g = MergeRels(g2, "HAS_SOLUTION_APPROACH", qs \X sa)]

RECURSIVE ApproachLoop(_, _, _, _)
ApproachLoop(st, item, approaches, now) ==
    IF approaches = <<>> \/ st.err # "" THEN st
    ELSE ApproachLoop(ApproachStep(st, item, Head(approaches), now),
                      item, Tail(approaches), now)

_create_solution_approaches(st, item, now) ==
    IF st.err # "" THEN st
    ELSE ApproachLoop(st, item, Get(item, "solution_approaches", <<>>), now)

\* the transaction function: the four steps in order, on the transaction's view
populate_question_and_concepts_transaction(g, item, now) ==
    IF _validate_question_data(item) # ""
    THEN [g |-> g, err |-> _validate_question_data(item)]
    ELSE _create_solution_approaches(
            _create_subconcepts(
                _create_standard_concepts(
                    _create_question_node([g |-> g, err |-> ""], item, now),
                    item, now),
                item, now),
            item, now)

-----------------------------------------------------------------------------
(* core/database.py                                                        *)

\* a rollback that takes back the nodes and keeps the relationships
write_transaction_keep_rels(g, item, now) ==
    LET st == populate_question_and_concepts_transaction(g, item, now)
    IN  IF st.err = "" THEN st
        ELSE [g |-> [nodes |-> g.nodes, rels |-> st.g.rels], err |-> st.err]

\* session.write_transaction(fn, item): commit what fn wrote, or roll all of it
\* back when fn raised
write_transaction(g, item, now) ==
    LET st == populate_question_and_concepts_transaction(g, item, now)
    IN  IF st.err = "" THEN st ELSE [g |-> g, err |-> st.err]

\* DatabaseManager.execute_transaction(populate_..._transaction, item)
execute_transaction(drv, reach, g, item, now) ==
    IF drv = "None" THEN [g |-> g, err |-> "RuntimeError"]
    ELSE IF ~reach THEN [g |-> g, err |-> "ServiceUnavailable"]
    ELSE write_transaction(g, item, now)

-----------------------------------------------------------------------------
(* The curriculum items the inputs are drawn from.                         *)

\* every field, names and texts that need trimming, a blank sub-concept
ItemFull ==
    [id |-> "q1", question_title |-> <<"T">>, question |-> "B",
     difficulty |-> "easy", step_no |-> 1, sub_step_no |-> 2, sl_no |-> 1,
     standard_concepts |-> << <<"a">> >>,
     sub_concepts |-> << <<" ", "b">>, <<" ">> >>,
     solution_approaches |->
        << [approach_name |-> <<"x", " ">>, explanation |-> <<"e">>] >>]

\* the required fields only; before ItemFull in curriculum order
ItemPlain ==
    [id |-> "q2", question_title |-> <<"T">>, question |-> "B",
     difficulty |-> "hard", step_no |-> 1, sub_step_no |-> 1, sl_no |-> 2]

\* structurally valid, and its transaction raises in the last step, after it
\* has written approach x: the explanation of its second approach is null
ItemFails ==
    [id |-> "q3", question_title |-> <<"T">>, question |-> "B",
     difficulty |-> "easy", step_no |-> 2, sub_step_no |-> 1, sl_no |-> 1,
     sub_concepts |-> << <<"b">> >>,
     solution_approaches |->
        << [approach_name |-> <<"x">>, explanation |-> <<"g">>],
           [approach_name |-> <<"y">>, explanation |-> None] >>]

\* lacks the required field question_title
ItemNoTitle ==
    [id |-> "q4", question |-> "B", difficulty |-> "easy",
     step_no |-> 1, sub_step_no |-> 1, sl_no |-> 1]

\* lacks the required field id
ItemNoId ==
    [question_title |-> <<"T">>, question |-> "B", difficulty |-> "easy",
     step_no |-> 1, sub_step_no |-> 1, sl_no |-> 1]

\* every required field, the title blank
ItemBlankTitle ==
    [id |-> "q5", question_title |-> <<" ">>, question |-> "B",
     difficulty |-> "easy", step_no |-> 1, sub_step_no |-> 1, sl_no |-> 3]

\* the id of ItemFull with other contents and another explanation of approach x
ItemRedo ==
    [id |-> "q1", question_title |-> <<"U">>, question |-> "B",
     difficulty |-> "hard", step_no |-> 2, sub_step_no |-> 1, sl_no |-> 1,
     sub_concepts |-> << <<"c">> >>,
     solution_approaches |->
        << [approach_name |-> <<"x">>, explanation |-> <<"f">>] >>]

ItemPool ==
    {ItemFull, ItemPlain, ItemFails, ItemNoTitle, ItemNoId, ItemBlankTitle,
     ItemRedo}

\* the input lists: every list of at most MaxItems different items of the pool
DataLists ==
    UNION {{d \in [1..n -> ItemPool] : \A a, b \in 1..n : a # b => d[a] # d[b]} :
            n \in 0..MaxItems}

BatchSizes == 1..MaxBatch

\* what populate_from_json_file finds at file_path
FileKinds == {"array", "missing", "unreadable", "invalid_json", "not_array"}

-----------------------------------------------------------------------------
(* services/data_population_service.py                                     *)

\* item.get('id', 'N/A')
ItemId(item) == Get(item, "id", "N/A")

\* SetupRepository._validate_data_items: the partition of the input
_validate_data_items(d) ==
    LET ok(item) == _validate_question_data(item) = ""
        bad      == SelectSeq(d, LAMBDA item : ~ok(item))
    IN  [valid_items      |-> SelectSeq(d, ok),
         invalid_items    |-> bad,
         invalid_item_ids |-> [n \in DOMAIN bad |-> ItemId(bad[n])]]

\* a loader without the isinstance(data, list) check
LoadErrorNoArrayCheck(kind) ==
    CASE kind = "missing"      -> "FileNotFoundError"
      [] kind = "unreadable"   -> "DataValidationError"
      [] kind = "invalid_json" -> "DataValidationError"
      [] OTHER                 -> ""

\* _load_json_data and the existence check before it: the exception raised for
\* what is at file_path, "" for an array
LoadError(kind) ==
    CASE kind = "missing"      -> "FileNotFoundError"
      [] kind = "unreadable"   -> "DataValidationError"
      [] kind = "invalid_json" -> "DataValidationError"
      [] kind = "not_array"    -> "DataValidationError"
      [] OTHER                 -> ""

NoStats == [returned |-> FALSE]

\* no complete_question call was made
NoCall == [pc |-> "idle"]

\* no lookup of the query layer was made
NoReply == [op |-> "none"]

\* a store without constraints and indexes, and no setup call made
NoSchema ==
    [declared |-> {}, pc |-> "idle", k |-> 0, issued |-> <<>>,
     before |-> {}, calls |-> 0, outages |-> 0]

\* the item transactions that may run at once
Writers == {"w1", "w2"}

\* no item transaction has begun
NoWriters == [w \in Writers |-> [pc |-> "idle"]]

\* main was not started; a manager with a driver has one driver open
NoApp == [pc |-> "idle", live |-> IF driver = "None" THEN 0 ELSE 1, exit |-> ""]

CallIdle == pc \in {"idle", "returned", "raised"}

\* the locals of _process_data_in_batches before its loop, given the outcome
\* v of the validation
SetLocals(v) ==
    /\ valid_data' = v.valid_items
    /\ invalid_items' = v.invalid_items
    /\ invalid_item_ids' = v.invalid_item_ids
    /\ i' = 0
    /\ batch' = <<>>
    /\ j' = 1
    /\ processed' = 0
    /\ failed' = 0
    /\ failed_ids' = <<>>
    /\ processed_items' = 0
    /\ failed_items' = 0
    /\ failed_item_ids' = <<>>

\* _process_data_in_batches up to its loop: the counters and the validation
StartBatches(d, bs) ==
    /\ data' = d
    /\ batch_size' = bs
    /\ SetLocals(_validate_data_items(d))
    /\ pc' = "loop"
    /\ raised' = ""

\* range(0, stop, step) of a step that is not 0: whether it yields n
InRange(n, stop, step) == IF step > 0 THEN n < stop ELSE n > stop

\* range(0, len(valid_data), 0) raises ValueError, after the validation
RaiseAtLoop(d, bs, exception) ==
    /\ data' = d
    /\ batch_size' = bs
    /\ SetLocals(_validate_data_items(d))
    /\ pc' = "raised"
    /\ raised' = exception

\* the call raises before _process_data_in_batches is entered
RaiseBeforeBatches(exception) ==
    /\ data' = <<>>
    /\ batch_size' = 1
    /\ SetLocals(_validate_data_items(<<>>))
    /\ pc' = "raised"
    /\ raised' = exception

\* what every populate call does on entry
EnterCall ==
    /\ CallIdle
    /\ runs < MaxRuns
    /\ runs' = runs + 1
    /\ stats' = NoStats
    /\ result' = <<>>
    /\ graph0' = graph
    /\ prev' = stats
    /\ UNCHANGED <<connVars, graph, clock, input, txlog, apiVars>>

populate_from_json_file ==
    \E kind \in FileKinds, bs \in BatchSizes :
        /\ EnterCall
        /\ entry' = "file"
        /\ file_kind' = kind
        /\ IF LoadError(kind) # ""
           THEN RaiseBeforeBatches(LoadError(kind))
           ELSE StartBatches(input, bs)

populate_from_data_list ==
    \E bs \in BatchSizes :
        /\ EnterCall
        /\ entry' = "list"
        /\ file_kind' = ""
        /\ StartBatches(input, bs)

\* the batch sizes a caller may pass: any integer
AnyBatchSizes == (0 - MaxBatch)..MaxBatch

\* populate_from_data_list with a batch size that may be 0 or negative
populate_from_data_list_sized ==
    \E bs \in AnyBatchSizes :
        /\ EnterCall
        /\ entry' = "list"
        /\ file_kind' = ""
        /\ IF bs = 0
           THEN RaiseAtLoop(input, bs, "ValueError")
           ELSE StartBatches(input, bs)

\* the reverse of a list
Reverse(seq) == [n \in DOMAIN seq |-> seq[Len(seq) + 1 - n]]

\* what BatchStart leaves alone
BatchStartFrame ==
    UNCHANGED <<connVars, graph, clock, input, runs, callArgs, validation, i,
                totals, stats, raised, txlog, graph0, prev, result, apiVars>>

\* a loop that takes the items of each batch last first
BatchStartReversed ==
    /\ pc = "loop"
    /\ InRange(i, Len(valid_data), batch_size)
    /\ batch' = Reverse(SubSeq(valid_data, i + 1, Min(i + batch_size, Len(valid_data))))
    /\ j' = 1
    /\ processed' = 0
    /\ failed' = 0
    /\ failed_ids' = <<>>
    /\ pc' = "batch"
    /\ BatchStartFrame

\* a loop whose slice ends at batch_size, not at i + batch_size
BatchStartShortSlice ==
    /\ pc = "loop"
    /\ InRange(i, Len(valid_data), batch_size)
    /\ batch' = SubSeq(valid_data, i + 1, Min(batch_size, Len(valid_data)))
    /\ j' = 1
    /\ processed' = 0
    /\ failed' = 0
    /\ failed_ids' = <<>>
    /\ pc' = "batch"
    /\ BatchStartFrame

\* for i in range(0, len(valid_data), batch_size): batch = valid_data[i:i + batch_size]
BatchStart ==
    /\ pc = "loop"
    /\ InRange(i, Len(valid_data), batch_size)
    /\ batch' = SubSeq(valid_data, i + 1, Min(i + batch_size, Len(valid_data)))
    /\ j' = 1
    /\ processed' = 0
    /\ failed' = 0
    /\ failed_ids' = <<>>
    /\ pc' = "batch"
    /\ UNCHANGED <<connVars, graph, clock, input, runs, callArgs, validation, i,
                   totals, stats, raised, txlog, graph0, prev, result,
                   apiVars>>

\* a loop without the except clause: the failure leaves the call
RaiseItemError(item) ==
    /\ pc' = "raised"
    /\ raised' = "ItemError"
    /\ UNCHANGED <<processed, failed, failed_ids, j>>

\* except Exception as e: the failure is counted and the loop goes on
CatchItemError(item) ==
    /\ failed' = failed + 1
    /\ failed_ids' = Append(failed_ids, ItemId(item))
    /\ j' = j + 1
    /\ UNCHANGED <<processed, pc, raised>>

\* one pass of the for loop of _process_batch: one transaction, whose failure
\* is caught and counted
ProcessItem ==
    /\ pc = "batch"
    /\ j <= Len(batch)
    /\ LET item == batch[j]
           r    == execute_transaction(driver, reachable, graph, item, clock)
       IN  /\ graph' = r.g
           /\ txlog' = Append(txlog, [run |-> runs, item |-> item, pos |-> i + j,
                                       now |-> clock, err |-> r.err])
           /\ IF r.err = ""
              THEN /\ processed' = processed + 1
                   /\ j' = j + 1
                   /\ UNCHANGED <<failed, failed_ids, pc, raised>>
              ELSE CatchItemError(item)
    /\ UNCHANGED <<connVars, clock, input, runs, callArgs, validation, i, batch,
                   totals, stats, graph0, prev, result,
                   apiVars>>

\* a loop whose index advances by one, whatever the batch size
BatchEndStepOne ==
    /\ pc = "batch"
    /\ j > Len(batch)
    /\ processed_items' = processed_items + processed
    /\ failed_items' = failed_items + failed
    /\ failed_item_ids' = failed_item_ids \o failed_ids
    /\ i' = i + 1
    /\ pc' = "loop"
    /\ UNCHANGED <<connVars, graph, clock, input, runs, callArgs, validation,
                   batchLocals, stats, raised, txlog, graph0, prev, result,
                   apiVars>>

\* _process_batch returns and its counts are added to the totals
BatchEnd ==
    /\ pc = "batch"
    /\ j > Len(batch)
    /\ processed_items' = processed_items + processed
    /\ failed_items' = failed_items + failed
    /\ failed_item_ids' = failed_item_ids \o failed_ids
    /\ i' = i + batch_size
    /\ pc' = "loop"
    /\ UNCHANGED <<connVars, graph, clock, input, runs, callArgs, validation,
                   batchLocals, stats, raised, txlog, graph0, prev, result,
                   apiVars>>

\* the report _process_data_in_batches builds
Report ==
    [returned         |-> TRUE,
     total_items      |-> Len(data),
     processed_items  |-> processed_items,
     failed_items     |-> failed_items,
     invalid_items    |-> Len(invalid_items),
     failed_item_ids  |-> failed_item_ids,
     invalid_item_ids |-> invalid_item_ids]

\* the loop is over: the report is returned
Return ==
    /\ pc = "loop"
    /\ ~InRange(i, Len(valid_data), batch_size)
    /\ stats' = Report
    /\ pc' = "returned"
    /\ UNCHANGED <<connVars, graph, clock, input, runs, callArgs, validation, i,
                   batchLocals, totals, raised, txlog, graph0, prev, result,
                   apiVars>>

\* time passes between two calls; instant 0 is that of the first call
Tick ==
    /\ CallIdle
    /\ pc # "idle"
    /\ clock < MaxClock
    /\ clock' = clock + 1
    /\ UNCHANGED <<connVars, graph, input, callVars, result, apiVars>>

-----------------------------------------------------------------------------
(* The ingestion pipeline over an initialized, reachable store.            *)

InitCommon ==
    /\ conn_error = ""
    /\ graph = EmptyGraph
    /\ clock = 0
    /\ input \in DataLists
    /\ runs = 0
    /\ pc = "idle"
    /\ entry = ""
    /\ file_kind = ""
    /\ data = <<>>
    /\ batch_size = 1
    /\ valid_data = <<>>
    /\ invalid_items = <<>>
    /\ invalid_item_ids = <<>>
    /\ i = 0
    /\ batch = <<>>
    /\ j = 1
    /\ processed = 0
    /\ failed = 0
    /\ failed_ids = <<>>
    /\ processed_items = 0
    /\ failed_items = 0
    /\ failed_item_ids = <<>>
    /\ stats = NoStats
    /\ raised = ""
    /\ txlog = <<>>
    /\ graph0 = EmptyGraph
    /\ prev = NoStats
    /\ result = <<>>
    /\ cq = NoCall
    /\ reply = NoReply
    /\ schema = NoSchema
    /\ writers = NoWriters
    /\ app = NoApp

Init ==
    /\ driver = "open"
    /\ reachable = TRUE
    /\ InitCommon

Next ==
    \/ populate_from_json_file
    \/ populate_from_data_list
    \/ BatchStart
    \/ ProcessItem
    \/ BatchEnd
    \/ Return
    \/ Tick

Spec == Init /\ [][Next]_vars

-----------------------------------------------------------------------------
(* repositories/student_repository.py and question_repository.py, through  *)
(* BaseRepository.execute_write_query / execute_query: one auto-commit      *)
(* query in a session of its own.                                          *)

Students == {"s1", "s2"}

\* the ids a caller may name: two the pool uses and one no item has
QuestionIds == {"q1", "q2", "q9"}

MaxLimit == 2

\* BaseRepository.execute_query / execute_write_query: get_session raises when
\* there is no driver, the session when the store does not answer; both are
\* re-raised as DatabaseConnectionError
SessionError == IF driver = "None" \/ ~reachable THEN "DatabaseConnectionError" ELSE ""

\* MERGE (s:Student {student_id}) ON CREATE SET ... ON MATCH SET ...
MergeStudent(g, sid, name, email, now) ==
    LET old == MatchNodes(g, "Student", "student_id", sid)
        g1  == MergeNode(g, "Student", "student_id", sid)
        ss  == MatchNodes(g1, "Student", "student_id", sid)
    IN  IF old = {}
        THEN SetProps(g1, ss, [created_at |-> now, name |-> name,
                               email |-> email, last_active |-> now])
        ELSE SetProps(g1, ss, [name |-> name, email |-> email,
                               last_active |-> now])

\* MERGE in the place of the two MATCH clauses: the student and the question
\* are made when they are not there
MarkQuestionMerging(g, type, sid, qid, now) ==
    LET g1   == MergeNode(MergeNode(g, "Student", "student_id", sid),
                          "Question", "id", qid)
        ss   == MatchNodes(g1, "Student", "student_id", sid)
        qs   == MatchNodes(g1, "Question", "id", qid)
        rows == ss \X qs
    IN  SetProps(SetRelTimestamp(MergeRels(g1, type, rows), type, rows, now),
                 ss, [last_active |-> now])

\* MATCH (s:Student {student_id}) MATCH (q:Question {id})
\* MERGE (s)-[r:type]->(q) SET r.timestamp = datetime(), s.last_active = datetime()
MarkQuestion(g, type, sid, qid, now) ==
    LET ss   == MatchNodes(g, "Student", "student_id", sid)
        qs   == MatchNodes(g, "Question", "id", qid)
        rows == ss \X qs
    IN  IF rows = {} THEN g
        ELSE SetProps(SetRelTimestamp(MergeRels(g, type, rows), type, rows, now),
                      ss, [last_active |-> now])

\* the value of a property a query returns: <<v>>, or <<>> for null
Prop(n, key) == IF HasProp(n, key) THEN <<n.props[key]>> ELSE <<>>

\* the subquery without the student_id: MATCH (s:Student)-[:MASTERED]->(q)
UnmasteredByAll(g, sid) ==
    {q \in NodesOf(g, "Question") :
        \A s \in NodesOf(g, "Student") : MatchRels(g, "MASTERED", s, q) = {}}

\* WHERE NOT EXISTS { MATCH (s:Student {student_id})-[:MASTERED]->(q) }
Unmastered(g, sid) ==
    {q \in NodesOf(g, "Question") :
        \A s \in MatchNodes(g, "Student", "student_id", sid) :
            MatchRels(g, "MASTERED", s, q) = {}}

\* ORDER BY ... ASC on one key: null sorts last
KeyLeq(a, b) == b = <<>> \/ (a # <<>> /\ a[1] <= b[1])
KeyLess(a, b) == KeyLeq(a, b) /\ a # b

\* ORDER BY q.step_number ASC, q.substep_number ASC, q.sequence_number ASC
OrderKeys == <<"step_number", "substep_number", "sequence_number">>

RECURSIVE LexLeq(_, _, _)
LexLeq(a, b, keys) ==
    IF keys = <<>> THEN TRUE
    ELSE LET ka == Prop(a, Head(keys))
             kb == Prop(b, Head(keys))
         IN  \/ KeyLess(ka, kb)
             \/ ka = kb /\ LexLeq(a, b, Tail(keys))

\* the orders in which ORDER BY may return the nodes ns: every arrangement
\* that the sort keys do not forbid
Orderings(g, ns, keys) ==
    {o \in [1..Cardinality(ns) -> ns] :
        /\ \A a, b \in DOMAIN o : a # b => o[a] # o[b]
        /\ \A a, b \in DOMAIN o :
              a < b => LexLeq(g.nodes[o[a]], g.nodes[o[b]], keys)}

\* RETURN q.id as id, q.title as title, ...: the row of one question
QuestionRow(n) ==
    [id                  |-> Prop(n, "id"),
     title               |-> Prop(n, "title"),
     content             |-> Prop(n, "content"),
     difficulty          |-> Prop(n, "difficulty"),
     step_number         |-> Prop(n, "step_number"),
     sub_step_number     |-> Prop(n, "substep_number"),
     sequence_number     |-> Prop(n, "sequence_number"),
     standard_concepts   |-> Prop(n, "standard_concepts"),
     sub_concepts        |-> Prop(n, "sub_concepts"),
     solution_approaches |-> Prop(n, "solution_approaches")]

\* LIMIT $limit
Limit(rows, limit) == SubSeq(rows, 1, Min(limit, Len(rows)))

\* the results find_unmastered_questions_for_student may return
UnmasteredResults(g, sid, limit) ==
    {Limit([k \in DOMAIN o |-> QuestionRow(g.nodes[o[k]])], limit) :
        o \in Orderings(g, Unmastered(g, sid), OrderKeys)}

\* what a call of the query / progress layer leaves of the ingest call's state
ApiFrame == UNCHANGED <<connVars, clock, input, callVars, apiVars>>

create_or_update_student ==
    \E sid \in Students :
        /\ CallIdle
        /\ SessionError = ""
        /\ graph' = MergeStudent(graph, sid, "n", "e", clock)
        /\ result' = <<>>
        /\ ApiFrame

mark_question_as_mastered ==
    \E sid \in Students, qid \in QuestionIds :
        /\ CallIdle
        /\ SessionError = ""
        /\ graph' = MarkQuestion(graph, "MASTERED", sid, qid, clock)
        /\ result' = <<>>
        /\ ApiFrame

find_unmastered_questions_for_student ==
    \E sid \in Students, limit \in 0..MaxLimit :
        /\ CallIdle
        /\ SessionError = ""
        /\ result' \in {[student |-> sid, limit |-> limit, rows |-> rows] :
                            rows \in UnmasteredResults(graph, sid, limit)}
        /\ UNCHANGED graph
        /\ ApiFrame

-----------------------------------------------------------------------------
(* The ingest calls with any integer as batch size.                        *)

NextBatch ==
    \/ populate_from_data_list_sized
    \/ BatchStart
    \/ ProcessItem
    \/ BatchEnd
    \/ Return

SpecBatch == Init /\ [][NextBatch]_vars

-----------------------------------------------------------------------------
(* The query and progress layer over the graph one ingest call writes, all *)
(* within one instant of the clock.                                        *)

QueryPool == {ItemFull, ItemPlain, ItemRedo}

InitQuery ==
    /\ Init
    /\ Range(input) \subseteq QueryPool

\* the ingest call of this specification: the first one, from a list
ingest_once == runs = 0 /\ populate_from_data_list

NextQuery ==
    \/ ingest_once
    \/ BatchStart
    \/ ProcessItem
    \/ BatchEnd
    \/ Return
    \/ create_or_update_student
    \/ mark_question_as_mastered
    \/ find_unmastered_questions_for_student

SpecQuery == InitQuery /\ [][NextQuery]_vars

-----------------------------------------------------------------------------
(* core/database.py: the life cycle of the connection, and the ingestion   *)
(* pipeline over a store that may be uninitialized or out of reach.        *)

\* an initialize_connection that takes no notice of the driver it has
AlreadyInitializedNever(drv) == FALSE

\* if self._driver is not None: return
AlreadyInitialized(drv) == drv # "None"

\* DatabaseManager.initialize_connection on a manager that has live drivers
\* open: the driver is assigned before verify_connectivity is called on it
InitializeDriver(drv, reach, live) ==
    IF AlreadyInitialized(drv)
    THEN [driver |-> drv, err |-> "", live |-> live]
    ELSE [driver |-> "open",
          err    |-> IF reach THEN "" ELSE "DatabaseConnectionError",
          live   |-> live + 1]

\* DatabaseManager.close_connection: the driver is closed and forgotten when
\* there is one
CloseDriver(drv, live) ==
    IF drv # "None"
    THEN [driver |-> "None", live |-> live - 1]
    ELSE [driver |-> drv, live |-> live]

\* the same when GraphDatabase.driver raises on the uri it is given: no
\* driver is made
InitializeBadUri(drv, live) ==
    IF AlreadyInitialized(drv)
    THEN [driver |-> drv, err |-> "", live |-> live]
    ELSE [driver |-> "None", err |-> "DatabaseConnectionError", live |-> live]

initialize_connection ==
    /\ CallIdle
    /\ LET r == InitializeDriver(driver, reachable, app.live)
       IN  /\ driver' = r.driver
           /\ conn_error' = r.err
           /\ app' = [app EXCEPT !.live = r.live]
    /\ UNCHANGED <<reachable, graph, clock, input, callVars, result, cq, reply,
                   schema, writers>>

\* DatabaseManager.close_connection, on a manager that has a driver
close_connection ==
    /\ CallIdle
    /\ driver # "None"
    /\ LET r == CloseDriver(driver, app.live)
       IN  /\ driver' = r.driver
           /\ app' = [app EXCEPT !.live = r.live]
    /\ UNCHANGED <<conn_error, reachable, graph, clock, input, callVars, result,
                   cq, reply, schema, writers>>

\* the store goes out of reach, or comes back, at any moment
NetworkChange ==
    /\ reachable' = ~reachable
    /\ UNCHANGED <<driver, conn_error, graph, clock, input, callVars, result, apiVars>>

ConnPool == {ItemFull, ItemPlain, ItemNoTitle}

InitConn ==
    /\ driver = "None"
    /\ reachable \in BOOLEAN
    /\ InitCommon
    /\ Range(input) \subseteq ConnPool

NextConn ==
    \/ initialize_connection
    \/ close_connection
    \/ NetworkChange
    \/ populate_from_json_file
    \/ populate_from_data_list
    \/ BatchStart
    \/ ProcessItem
    \/ BatchEnd
    \/ Return

SpecConn == InitConn /\ [][NextConn]_vars

-----------------------------------------------------------------------------
(* services/recommendation_service.py: complete_question.  The function    *)
(* handed to DatabaseManager.execute_transaction ignores the transaction   *)
(* it is given and calls the repository, whose every call runs one         *)
(* auto-commit query in a session of its own.                              *)

\* MATCH (s:Student {student_id}) MATCH (q:Question {id})
\* WITH s, q.sub_concepts AS subconcept_names UNWIND subconcept_names AS name
\* MATCH (sc:SubConcept {name}) MERGE (s)-[:MASTERED]->(sc) SET s.last_active
MarkSubconcepts(g, sid, qid, now) ==
    LET ss    == MatchNodes(g, "Student", "student_id", sid)
        qs    == MatchNodes(g, "Question", "id", qid)
        \* UNWIND of null gives no row
        names == UNION {Range(g.nodes[q].props.sub_concepts) :
                          q \in {x \in qs : HasProp(g.nodes[x], "sub_concepts")}}
        scs   == UNION {MatchNodes(g, "SubConcept", "name", name) : name \in names}
        rows  == ss \X scs
    IN  IF rows = {} THEN g
        ELSE SetProps(MergeRels(g, "MASTERED", rows), ss, [last_active |-> now])

\* what the properties need of the graph a complete_question call found: the
\* types of the edges from the student to the question, and whether the
\* student had an edge at all
EdgesBefore(g, sid, qid) ==
    LET ss == MatchNodes(g, "Student", "student_id", sid)
        qs == MatchNodes(g, "Question", "id", qid)
    IN  [types |-> {r.type : r \in {x \in BagToSet(g.rels) :
                                        x.src \in ss /\ x.dst \in qs}},
         any   |-> \E r \in BagToSet(g.rels) : r.src \in ss]

\* no complete_question call is running
CqIdle == cq.pc \in {"idle", "done", "raised"}

\* the call is left by an exception raised at the step it was in
CqRaise(exception) ==
    cq' = [cq EXCEPT !.pc = "raised", !.err = exception, !.at = cq.pc]

CqFrame == UNCHANGED <<connVars, clock, input, callVars, result, reply, schema, writers, app>>

\* the questions progress is recorded on: one that items of the pool have,
\* with sub-concepts, and one no item has
ProgressIds == {"q1", "q9"}

\* complete_question up to the start of the transaction function:
\* execute_transaction needs the driver, write_transaction the store
complete_question ==
    \E sid \in Students, qid \in ProgressIds, m \in BOOLEAN :
        /\ CallIdle
        /\ CqIdle
        /\ LET call == [pc |-> "attempted", student_id |-> sid, question_id |-> qid,
                        is_mastered |-> m, before |-> EdgesBefore(graph, sid, qid),
                        err |-> "", at |-> "begin"]
           IN  cq' = IF driver = "None"
                     THEN [call EXCEPT !.pc = "raised", !.err = "RuntimeError"]
                     ELSE IF ~reachable
                     THEN [call EXCEPT !.pc = "raised", !.err = "ServiceUnavailable"]
                     ELSE call
        /\ UNCHANGED graph
        /\ CqFrame

\* the transaction function run as if is_mastered were True
AfterAttemptAlways(is_mastered) == "mastered"

\* if is_mastered: the step that follows the attempt write
AfterAttempt(is_mastered) == IF is_mastered THEN "mastered" ELSE "commit"

\* self.student_repo.mark_question_as_attempted(student_id, question_id)
complete_question_attempted ==
    /\ cq.pc = "attempted"
    /\ IF SessionError # ""
       THEN CqRaise(SessionError) /\ UNCHANGED graph
       ELSE /\ graph' = MarkQuestion(graph, "ATTEMPTED", cq.student_id,
                                     cq.question_id, clock)
            /\ cq' = [cq EXCEPT !.pc = AfterAttempt(cq.is_mastered)]
    /\ CqFrame

\* self.student_repo.mark_question_as_mastered(student_id, question_id)
complete_question_mastered ==
    /\ cq.pc = "mastered"
    /\ IF SessionError # ""
       THEN CqRaise(SessionError) /\ UNCHANGED graph
       ELSE /\ graph' = MarkQuestion(graph, "MASTERED", cq.student_id,
                                     cq.question_id, clock)
            /\ cq' = [cq EXCEPT !.pc = "subconcepts"]
    /\ CqFrame

\* self.student_repo.mark_subconcepts_as_mastered(student_id, question_id)
complete_question_subconcepts ==
    /\ cq.pc = "subconcepts"
    /\ IF SessionError # ""
       THEN CqRaise(SessionError) /\ UNCHANGED graph
       ELSE /\ graph' = MarkSubconcepts(graph, cq.student_id, cq.question_id, clock)
            /\ cq' = [cq EXCEPT !.pc = "commit"]
    /\ CqFrame

\* the transaction function returned: write_transaction commits its
\* transaction, in which nothing was run
complete_question_commit ==
    /\ cq.pc = "commit"
    /\ IF reachable
       THEN cq' = [cq EXCEPT !.pc = "done"]
       ELSE CqRaise("ServiceUnavailable")
    /\ UNCHANGED graph
    /\ CqFrame

ProgressPool == {ItemFull, ItemPlain}

InitProgress ==
    /\ Init
    /\ Range(input) \subseteq ProgressPool

\* StudentRepository.create_or_update_student, after the ingest call and
\* between two complete_question calls, as main registers its student
register == pc = "returned" /\ CqIdle /\ create_or_update_student

\* the ingest call of this specification, made before any progress is recorded
ingest_first == cq = NoCall /\ ingest_once

NextProgress ==
    \/ ingest_first
    \/ BatchStart
    \/ ProcessItem
    \/ BatchEnd
    \/ Return
    \/ register
    \/ NetworkChange
    \/ complete_question
    \/ complete_question_attempted
    \/ complete_question_mastered
    \/ complete_question_subconcepts
    \/ complete_question_commit

SpecProgress == InitProgress /\ [][NextProgress]_vars

-----------------------------------------------------------------------------
(* repositories/question_repository.py: the lookups of questions, over the *)
(* graph one ingest call wrote.                                            *)

\* a null of a result row read in Python
PyValue(x) == IF x = <<>> THEN None ELSE x[1]

\* QuestionRepository._build_question_from_data
_build_question_from_data(data_row) ==
    LET listed == data_row.solution_approaches
        solution_approaches ==
            IF listed = <<>> \/ listed[1] = <<>> THEN <<>>
            ELSE [k \in DOMAIN listed[1] |->
                    [name        |-> Get(listed[1][k], "name", <<>>),
                     explanation |-> Get(listed[1][k], "explanation", <<>>)]]
    IN  [id                  |-> PyValue(data_row.id),
         title               |-> PyValue(data_row.title),
         content             |-> PyValue(data_row.content),
         difficulty          |-> PyValue(data_row.difficulty),
         step_number         |-> PyValue(data_row.step_number),
         sub_step_number     |-> PyValue(data_row.sub_step_number),
         sequence_number     |-> PyValue(data_row.sequence_number),
         standard_concepts   |-> PyValue(data_row.standard_concepts),
         sub_concepts        |-> PyValue(data_row.sub_concepts),
         solution_approaches |-> solution_approaches]

\* what a lookup leaves of the state
LookupFrame == UNCHANGED <<connVars, graph, clock, input, callVars, result, cq, schema, writers, app>>

\* QuestionRepository.find_question_by_id
find_question_by_id ==
    \E question_id \in QuestionIds :
        /\ CallIdle
        /\ CqIdle
        /\ LET results == MatchNodes(graph, "Question", "id", question_id)
               call    == [op |-> "find_question_by_id", args |-> <<question_id>>,
                           session |-> SessionError]
           IN  \/ /\ SessionError # ""
                  /\ reply' = call @@ [err |-> SessionError, found |-> FALSE,
                                       value |-> None]
               \/ /\ SessionError = ""
                  /\ results = {}
                  /\ reply' = call @@ [err |-> "", found |-> FALSE, value |-> None]
               \/ /\ SessionError = ""
                  /\ \E q \in results :
                        reply' = call @@
                            [err   |-> "",
                             found |-> TRUE,
                             value |-> _build_question_from_data(
                                           QuestionRow(graph.nodes[q]))]
        /\ LookupFrame

\* the variables the clauses of the concept query bind, and the parameters
\* the call passes
ConceptQueryBound == {"q", "s", "$student_id", "$concept_name", "$limit"}

\* the names the concept query refers to
ConceptQueryUsed == {"q", "s", "concept_name", "$student_id", "$limit"}

\* the planner rejects a query that refers to a variable no clause defines
CypherError(bound, used) == IF used \subseteq bound THEN "" ELSE "SyntaxError"

\* x IN list, where a null list yields null and the row is filtered out
InList(x, list) == list # <<>> /\ x \in Range(list[1])

\* the results the concept query returns when it is planned
ConceptResults(g, sid, concept_name, limit) ==
    LET ns == {q \in Unmastered(g, sid) :
                  \/ InList(concept_name, Prop(g.nodes[q], "standard_concepts"))
                  \/ InList(concept_name, Prop(g.nodes[q], "sub_concepts"))}
    IN  {Limit([k \in DOMAIN o |-> QuestionRow(g.nodes[o[k]])], limit) :
            o \in Orderings(g, ns, OrderKeys)}

ConceptNames == {<<"a">>, <<"b">>}

\* QuestionRepository.find_questions_by_concept_for_student
find_questions_by_concept_for_student ==
    \E sid \in Students, concept_name \in ConceptNames, limit \in 1..MaxLimit :
        /\ CallIdle
        /\ CqIdle
        /\ LET call == [op      |-> "find_questions_by_concept_for_student",
                        args    |-> <<sid, concept_name, limit>>,
                        session |-> SessionError,
                        known   |-> MatchNodes(graph, "Student", "student_id", sid) # {}]
               error == CypherError(ConceptQueryBound, ConceptQueryUsed)
           IN  IF SessionError # "" \/ error # ""
               THEN reply' = call @@ [err |-> "DatabaseConnectionError", value |-> <<>>]
               ELSE \E rows \in ConceptResults(graph, sid, concept_name, limit) :
                       reply' = call @@ [err |-> "", value |-> rows]
        /\ LookupFrame

LookupPool == {ItemFull, ItemPlain, ItemFails}

InitLookup ==
    /\ Init
    /\ Range(input) \subseteq LookupPool

\* the ingest call of this specification, made before any lookup
ingest_unread == reply = NoReply /\ ingest_once

\* the student main registers after the ingest call
register_reader == pc = "returned" /\ reply = NoReply /\ create_or_update_student

NextLookup ==
    \/ ingest_unread
    \/ BatchStart
    \/ ProcessItem
    \/ BatchEnd
    \/ Return
    \/ register_reader
    \/ NetworkChange
    \/ find_question_by_id
    \/ find_questions_by_concept_for_student

SpecLookup == InitLookup /\ [][NextLookup]_vars

-----------------------------------------------------------------------------
(* services/recommendation_service.py and the lookups it rests on, over    *)
(* the graph one ingest call, the registrations and the mastery records    *)
(* wrote.                                                                  *)

\* limit=20 of the query get_next_recommended_question makes
RecommendLimit == 20

\* a recommendation that does not verify the student
StudentNotFoundNever(students) == ""

\* if not student: raise StudentNotFoundError
StudentNotFound(students) ==
    IF students = {} THEN "StudentNotFoundError" ELSE ""

\* the Student find_student_by_id builds of a row
StudentOf(n) ==
    [student_id  |-> PyValue(Prop(n, "student_id")),
     name        |-> PyValue(Prop(n, "name")),
     email       |-> PyValue(Prop(n, "email")),
     created_at  |-> PyValue(Prop(n, "created_at")),
     last_active |-> PyValue(Prop(n, "last_active"))]

\* what a call that raised or found nothing leaves as its outcome
Outcome(call, exception) ==
    call @@ [session |-> SessionError, err |-> exception, found |-> FALSE,
             value |-> None]

\* what a call that returns a value leaves as its outcome
Returned(call, value) ==
    call @@ [session |-> SessionError, err |-> "", found |-> TRUE, value |-> value]

\* StudentRepository.find_student_by_id
find_student_by_id ==
    \E student_id \in Students :
        /\ CallIdle
        /\ CqIdle
        /\ LET results == MatchNodes(graph, "Student", "student_id", student_id)
               call    == [op |-> "find_student_by_id", args |-> <<student_id>>]
           IN  IF SessionError # "" THEN reply' = Outcome(call, SessionError)
               ELSE IF results = {} THEN reply' = Outcome(call, "")
               ELSE \E n \in results :
                       reply' = Returned(call, StudentOf(graph.nodes[n]))
        /\ LookupFrame

\* RecommendationService._apply_recommendation_logic
_apply_recommendation_logic(questions) == questions

\* RecommendationService.get_next_recommended_question
get_next_recommended_question ==
    \E student_id \in Students :
        /\ CallIdle
        /\ CqIdle
        /\ LET student == MatchNodes(graph, "Student", "student_id", student_id)
               call    == [op |-> "get_next_recommended_question",
                           args |-> <<student_id>>]
           IN  IF SessionError # "" THEN reply' = Outcome(call, SessionError)
               ELSE IF StudentNotFound(student) # ""
               THEN reply' = Outcome(call, StudentNotFound(student))
               ELSE \E questions \in UnmasteredResults(graph, student_id,
                                                       RecommendLimit) :
                       LET recommended == _apply_recommendation_logic(questions)
                       IN  IF questions = <<>> \/ recommended = <<>>
                           THEN reply' = Outcome(call, "")
                           ELSE reply' = Returned(call, recommended[1])
        /\ LookupFrame

\* RecommendationService.get_questions_by_concept
get_questions_by_concept ==
    \E student_id \in Students, concept_name \in ConceptNames, limit \in 1..MaxLimit :
        /\ CallIdle
        /\ CqIdle
        /\ LET student == MatchNodes(graph, "Student", "student_id", student_id)
               call    == [op |-> "get_questions_by_concept",
                           args |-> <<student_id, concept_name, limit>>]
               error   == CypherError(ConceptQueryBound, ConceptQueryUsed)
           IN  IF SessionError # "" THEN reply' = Outcome(call, SessionError)
               ELSE IF StudentNotFound(student) # ""
               THEN reply' = Outcome(call, StudentNotFound(student))
               ELSE IF error # ""
               THEN reply' = Outcome(call, "DatabaseConnectionError")
               ELSE \E rows \in ConceptResults(graph, student_id, concept_name, limit) :
                       reply' = Returned(call, rows)
        /\ LookupFrame

\* the limits a caller passes to get_all_questions: none, or an integer
Limits == {<<>>} \cup {<<n>> : n \in 0..MaxLimit}

\* the results of the query of get_all_questions, which has a LIMIT clause
\* when the limit is truthy
AllQuestionsResults(g, limit) ==
    {LET questions == [k \in DOMAIN o |->
                          _build_question_from_data(QuestionRow(g.nodes[o[k]]))]
     IN  IF limit # <<>> /\ limit[1] # 0
         THEN Limit(questions, limit[1])
         ELSE questions :
        o \in Orderings(g, NodesOf(g, "Question"), OrderKeys)}

\* QuestionRepository.get_all_questions
get_all_questions ==
    \E limit \in Limits :
        /\ CallIdle
        /\ CqIdle
        /\ LET call == [op |-> "get_all_questions", args |-> <<limit>>]
           IN  IF SessionError # "" THEN reply' = Outcome(call, SessionError)
               ELSE \E questions \in AllQuestionsResults(graph, limit) :
                       reply' = Returned(call, questions)
        /\ LookupFrame

RecommendPool == {ItemFull, ItemPlain}

InitRecommend ==
    /\ Init
    /\ Range(input) \subseteq RecommendPool

\* a mastery record made after the ingest call and before any lookup
master_unread == pc = "returned" /\ reply = NoReply /\ mark_question_as_mastered

NextRecommend ==
    \/ ingest_unread
    \/ BatchStart
    \/ ProcessItem
    \/ BatchEnd
    \/ Return
    \/ register_reader
    \/ master_unread
    \/ NetworkChange
    \/ find_student_by_id
    \/ find_question_by_id
    \/ get_next_recommended_question
    \/ get_questions_by_concept
    \/ get_all_questions

SpecRecommend == InitRecommend /\ [][NextRecommend]_vars

-----------------------------------------------------------------------------
(* services/data_population_service.py: validate_data_structure, on a      *)
(* manager with or without a driver, over a store within reach or not.     *)

\* _load_json_data without the existence check before it: open() raises for
\* a missing file as for an unreadable one, and the IOError is re-raised as
\* DataValidationError
LoadErrorNoExistsCheck(kind) ==
    IF kind = "array" THEN "" ELSE "DataValidationError"

\* the graph after one transaction for each item of the list, in order
RECURSIVE PopulateAll(_, _, _, _, _)
PopulateAll(drv, reach, g, items, now) ==
    IF items = <<>> THEN g
    ELSE PopulateAll(drv, reach,
                     execute_transaction(drv, reach, g, Head(items), now).g,
                     Tail(items), now)

\* a validation that goes on to process the valid items
ValidateAndProcess(drv, reach, g, d, now) ==
    LET v == _validate_data_items(d)
    IN  [g |-> PopulateAll(drv, reach, g, v.valid_items, now), value |-> v]

\* return self._validate_data_items(data, validate_only=True): the partition
\* is returned and no query is run
ValidateOnly(drv, reach, g, d, now) ==
    [g |-> g, value |-> _validate_data_items(d)]

\* DataPopulationService.validate_data_structure
validate_data_structure ==
    \E kind \in FileKinds :
        /\ CallIdle
        /\ CqIdle
        /\ LET call == [op |-> "validate_data_structure", args |-> <<kind>>]
               r    == ValidateOnly(driver, reachable, graph, input, clock)
           IN  IF LoadErrorNoExistsCheck(kind) # ""
               THEN /\ reply' = call @@ [err   |-> LoadErrorNoExistsCheck(kind),
                                         found |-> FALSE, value |-> None]
                    /\ UNCHANGED graph
               ELSE /\ reply' = call @@ [err |-> "", found |-> TRUE, value |-> r.value]
                    /\ graph' = r.g
        /\ UNCHANGED <<connVars, clock, input, callVars, result, cq, schema, writers, app>>

InitValidate ==
    /\ driver \in {"open", "None"}
    /\ reachable = TRUE
    /\ InitCommon

NextValidate ==
    \/ ingest_once
    \/ BatchStart
    \/ ProcessItem
    \/ BatchEnd
    \/ Return
    \/ NetworkChange
    \/ validate_data_structure

SpecValidate == InitValidate /\ [][NextValidate]_vars

-----------------------------------------------------------------------------
(* core/database.py: the operations of DatabaseManager, called at any      *)
(* moment of the life cycle of the connection.                             *)

ManagerOps ==
    {"get_driver", "get_session", "execute_transaction",
     "execute_read_transaction", "execute_write_query", "execute_read_query"}

\* what an operation of the manager raises, and the sessions it opens: the
\* accessors test `self._driver is None` and raise DatabaseConnectionError,
\* the execute_* methods test `not self._driver` and raise RuntimeError
ManagerCall(op, drv, reach) ==
    CASE op = "get_driver" ->
            [err |-> IF drv = "None" THEN "DatabaseConnectionError" ELSE "",
             sessions |-> 0]
      [] op = "get_session" ->
            IF drv = "None"
            THEN [err |-> "DatabaseConnectionError", sessions |-> 0]
            ELSE [err |-> "", sessions |-> 1]
      [] OTHER ->
            IF drv = "None" THEN [err |-> "RuntimeError", sessions |-> 0]
            ELSE IF ~reach THEN [err |-> "ServiceUnavailable", sessions |-> 1]
            ELSE [err |-> "", sessions |-> 1]

\* a call of an operation of the manager, with a function or a query that
\* writes nothing
manager_call ==
    \E op \in ManagerOps :
        /\ CallIdle
        /\ reply' = [op |-> op, had_driver |-> driver # "None",
                     reached |-> reachable]
                    @@ ManagerCall(op, driver, reachable)
        /\ UNCHANGED <<connVars, graph, clock, input, callVars, result, cq, schema, writers, app>>

InitManager ==
    /\ driver = "None"
    /\ reachable \in BOOLEAN
    /\ InitCommon
    /\ input = <<>>

NextManager ==
    \/ initialize_connection
    \/ close_connection
    \/ NetworkChange
    \/ manager_call

SpecManager == InitManager /\ [][NextManager]_vars

-----------------------------------------------------------------------------
(* repositories/student_repository.py: get_student_progress_summary, read  *)
(* in a session of its own while a complete_question call may be running.  *)

\* the ids of the questions the students ss have an edge of the type to
QuestionsBy(g, ss, type) ==
    {g.nodes[q].props.id :
        q \in {q \in NodesOf(g, "Question") :
                 \E s \in ss : MatchRels(g, type, s, q) # {}}}

\* the row of the query of get_student_progress_summary for the student s
SummaryRow(g, s) ==
    [student_id              |-> g.nodes[s].props.student_id,
     attempted_count         |-> Cardinality(QuestionsBy(g, {s}, "ATTEMPTED")),
     mastered_count          |-> Cardinality(QuestionsBy(g, {s}, "MASTERED")),
     mastered_concepts_count |->
        Cardinality({c \in NodesOf(g, "Concept") : MatchRels(g, "MASTERED", s, c) # {}}),
     attempted_questions     |-> QuestionsBy(g, {s}, "ATTEMPTED"),
     mastered_questions      |-> QuestionsBy(g, {s}, "MASTERED")]

\* StudentRepository.get_student_progress_summary, called by a reader while
\* the complete_question call of cq is where cq.pc says
get_student_progress_summary ==
    \E student_id \in Students :
        /\ CallIdle
        /\ LET results == MatchNodes(graph, "Student", "student_id", student_id)
               call    == [op |-> "get_student_progress_summary",
                           args |-> <<student_id>>, during |-> cq]
           IN  IF SessionError # "" THEN reply' = Outcome(call, SessionError)
               ELSE IF results = {} THEN reply' = Outcome(call, "")
               ELSE \E s \in results : reply' = Returned(call, SummaryRow(graph, s))
        /\ LookupFrame

\* the calls of the progress layer, up to the one read of the reader
progress_unread == reply = NoReply /\ NextProgress

NextObserve ==
    \/ progress_unread
    \/ get_student_progress_summary

SpecObserve == InitProgress /\ [][NextObserve]_vars

-----------------------------------------------------------------------------
(* The writers of the graph one after the other, in any order: ingest      *)
(* calls, registrations, records of attempts and of mastery.               *)

\* StudentRepository.mark_question_as_attempted
mark_question_as_attempted ==
    \E sid \in Students, qid \in ProgressIds :
        /\ CallIdle
        /\ SessionError = ""
        /\ graph' = MarkQuestion(graph, "ATTEMPTED", sid, qid, clock)
        /\ result' = <<>>
        /\ ApiFrame

\* StudentRepository.mark_question_as_mastered, of the same questions
record_mastery ==
    \E sid \in Students, qid \in ProgressIds :
        /\ CallIdle
        /\ SessionError = ""
        /\ graph' = MarkQuestion(graph, "MASTERED", sid, qid, clock)
        /\ result' = <<>>
        /\ ApiFrame

\* two items of one id, which share an approach
WritersPool == {ItemFull, ItemRedo}

InitWriters ==
    /\ Init
    /\ input # <<>>
    /\ Range(input) \subseteq WritersPool

\* the calls of the student repository, made between two ingest calls or
\* after the last
enrol == pc = "returned" /\ create_or_update_student

attempt == pc = "returned" /\ mark_question_as_attempted

master == pc = "returned" /\ record_mastery

NextWriters ==
    \/ populate_from_data_list
    \/ BatchStart
    \/ ProcessItem
    \/ BatchEnd
    \/ Return
    \/ enrol
    \/ attempt
    \/ master

SpecWriters == InitWriters /\ [][NextWriters]_vars

-----------------------------------------------------------------------------
(* repositories/setup_repository.py: clear_all_data, among the calls that   *)
(* write the graph.                                                        *)

MaxClears == 1

\* the number of clear_all_data calls made so far
Clears == IF reply = NoReply THEN 0 ELSE reply.n

\* MATCH (n) DETACH DELETE n, of the relationships only
DeleteRelsOnly(g) == [g EXCEPT !.rels = EmptyBag]

\* MATCH (n) DETACH DELETE n
DetachDeleteAll(g) == EmptyGraph

\* SetupRepository.clear_all_data: its one statement, through
\* execute_write_query
clear_all_data ==
    /\ CallIdle
    /\ Clears < MaxClears
    /\ LET call == [op |-> "clear_all_data", n |-> Clears + 1]
       IN  IF SessionError # ""
           THEN /\ reply' = call @@ [err |-> SessionError]
                /\ graph' = graph
           ELSE /\ reply' = call @@ [err |-> ""]
                /\ graph' = DetachDeleteAll(graph)
    /\ UNCHANGED <<connVars, clock, input, callVars, result, cq, schema, writers, app>>

NextClear ==
    \/ populate_from_data_list
    \/ BatchStart
    \/ ProcessItem
    \/ BatchEnd
    \/ Return
    \/ enrol
    \/ attempt
    \/ master
    \/ clear_all_data

SpecClear == InitWriters /\ [][NextClear]_vars

-----------------------------------------------------------------------------
(* services/data_population_service.py: populate_from_json_file over a     *)
(* file whose array holds elements of any JSON type. The call is taken as  *)
(* one step. An element that is not an object is a record with a field py, *)
(* the name of its Python type; a string or a list carries the set of the  *)
(* required field names that "field in item" finds in it.                  *)

ElemNumber == [py |-> "int"]
ElemNull   == [py |-> "NoneType"]
ElemString == [py |-> "str", has |-> {}]
ElemList   == [py |-> "list", has |-> {}]

\* the list of the seven required field names
ElemFieldList == [py |-> "list", has |-> Range(required_fields)]

ElementPool ==
    {ItemPlain, ItemNoTitle, ElemNumber, ElemNull, ElemString, ElemList,
     ElemFieldList}

\* the arrays a file holds: at most MaxItems elements of the pool
ElementLists == UNION {[1..n -> ElementPool] : n \in 0..MaxItems}

IsObject(e) == "py" \notin DOMAIN e

\* one turn of the loop of _validate_data_items: "valid", "invalid", or the
\* exception that leaves the loop. "field not in item" raises TypeError on a
\* number and on None; on a string or a list it is a membership test, and
\* the DataValidationError of a missing field is caught by a handler whose
\* item.get raises AttributeError
ValidateElement(e) ==
    IF IsObject(e)
    THEN IF _validate_question_data(e) = "" THEN "valid" ELSE "invalid"
    ELSE IF e.py \in {"int", "NoneType"} THEN "TypeError"
    ELSE IF Range(required_fields) \subseteq e.has THEN "valid"
    ELSE "AttributeError"

\* _validate_data_items: the exception of the first element that raises one,
\* and else the valid elements
RECURSIVE ValidateElements(_)
ValidateElements(d) ==
    IF d = <<>> THEN [err |-> "", valid_items |-> <<>>]
    ELSE LET v == ValidateElement(Head(d))
         IN  IF v \notin {"valid", "invalid"}
             THEN [err |-> v, valid_items |-> <<>>]
             ELSE LET rest == ValidateElements(Tail(d))
                  IN  IF v = "valid" /\ rest.err = ""
                      THEN [rest EXCEPT !.valid_items = <<Head(d)>> \o @]
                      ELSE rest

\* the batches, whatever their size: one transaction an item, in order. The
\* transaction of an element that is not an object raises (item['id']), and
\* the handler of _process_batch raises AttributeError at item.get
RECURSIVE ProcessElements(_, _, _, _, _)
ProcessElements(drv, reach, g, items, now) ==
    IF items = <<>> THEN [g |-> g, err |-> ""]
    ELSE IF ~IsObject(Head(items)) THEN [g |-> g, err |-> "AttributeError"]
    ELSE ProcessElements(drv, reach,
                         execute_transaction(drv, reach, g, Head(items), now).g,
                         Tail(items), now)

\* DataPopulationService.populate_from_json_file on a file that holds the
\* array d: except Exception: raise
populate_from_json_file_elements ==
    \E d \in ElementLists :
        /\ CallIdle
        /\ CqIdle
        /\ LET call == [op |-> "populate_from_json_file", args |-> <<d>>]
               v    == ValidateElements(d)
               r    == ProcessElements(driver, reachable, graph, v.valid_items,
                                       clock)
           IN  IF v.err # ""
               THEN /\ reply' = call @@ [err |-> v.err]
                    /\ graph' = graph
               ELSE /\ reply' = call @@ [err |-> r.err]
                    /\ graph' = r.g
        /\ UNCHANGED <<connVars, clock, input, callVars, result, cq, schema, writers, app>>

InitElements ==
    /\ driver = "open"
    /\ reachable = TRUE
    /\ InitCommon
    /\ input = <<>>

NextElements ==
    \/ populate_from_json_file_elements
    \/ NetworkChange

SpecElements == InitElements /\ [][NextElements]_vars

-----------------------------------------------------------------------------
(* repositories/setup_repository.py: create_constraints_and_indexes, one   *)
(* declaration a step, over a store that may go out of reach between two.  *)

MaxSetups  == 2
MaxOutages == 2

Declaration(kind, name, label, on) ==
    [kind |-> kind, name |-> name, label |-> label, on |-> on]

\* constraints_and_indexes
constraints_and_indexes ==
    << Declaration("CONSTRAINT", "student_id_unique", "Student", <<"student_id">>),
       Declaration("CONSTRAINT", "question_id_unique", "Question", <<"id">>),
       Declaration("CONSTRAINT", "concept_name_unique", "Concept", <<"name">>),
       Declaration("CONSTRAINT", "subconcept_name_unique", "SubConcept", <<"name">>),
       Declaration("CONSTRAINT", "solution_approach_name_unique",
                   "solution_approach", <<"name">>),
       Declaration("INDEX", "student_id_index", "Student", <<"student_id">>),
       Declaration("INDEX", "question_id_index", "Question", <<"id">>),
       Declaration("INDEX", "concept_name_index", "Concept", <<"name">>),
       Declaration("INDEX", "question_difficulty_index", "Question", <<"difficulty">>),
       Declaration("INDEX", "question_step_index", "Question",
                   <<"step_number", "sub_step_number", "sequence_number">>),
       Declaration("INDEX", "student_last_active_index", "Student", <<"last_active">>) >>

\* the declarations of the store that stand in the way of st: one of its
\* name, or one over the same label and properties
Standing(declared, st) ==
    {o \in declared : o.name = st.name \/ (o.label = st.label /\ o.on = st.on)}

\* CREATE ... IF NOT EXISTS: the store after the statement, which declares st
\* when the store is within reach and nothing stands in its way
Declare(declared, st) ==
    IF SessionError = "" /\ Standing(declared, st) = {}
    THEN declared \cup {st}
    ELSE declared

\* whether execute_write_query raises on the statement: it does out of reach
\* of the store; it does not when st is declared or is there already; over a
\* constraint or an index of the other kind the store may refuse or pass
Raises(declared, st) ==
    IF SessionError # "" THEN {TRUE}
    ELSE IF \E o \in Standing(declared, st) : o.kind # st.kind /\ o.name # st.name
         THEN {TRUE, FALSE}
         ELSE {FALSE}

\* a loop inside the try: the first statement that raises ends the loop
NextStatementAbort(k, exception) ==
    IF exception THEN Len(constraints_and_indexes) + 1 ELSE k + 1

\* for query in constraints_and_indexes: try ... except Exception: the loop
\* goes on to the next statement whether or not this one raised
NextStatement(k, exception) == k + 1

SetupFrame == UNCHANGED <<connVars, graph, clock, input, callVars, result, cq, reply, writers, app>>

\* SetupRepository.create_constraints_and_indexes: entry
create_constraints_and_indexes ==
    /\ CallIdle
    /\ CqIdle
    /\ schema.pc \in {"idle", "returned"}
    /\ schema.calls < MaxSetups
    /\ schema' = [schema EXCEPT !.pc = "loop", !.k = 1, !.issued = <<>>,
                                !.before = schema.declared, !.calls = @ + 1]
    /\ SetupFrame

\* one turn of the loop: self.execute_write_query(query) in its try
setup_statement ==
    /\ schema.pc = "loop"
    /\ schema.k <= Len(constraints_and_indexes)
    /\ LET st == constraints_and_indexes[schema.k]
       IN  \E exception \in Raises(schema.declared, st) :
              schema' = [schema EXCEPT
                            !.declared = Declare(@, st),
                            !.issued   = Append(@, schema.k),
                            !.k        = NextStatement(@, exception)]
    /\ SetupFrame

\* the loop is over: the method returns None
setup_return ==
    /\ schema.pc = "loop"
    /\ schema.k > Len(constraints_and_indexes)
    /\ schema' = [schema EXCEPT !.pc = "returned"]
    /\ SetupFrame

\* the store goes out of reach, or comes back, MaxOutages times at most
Outage ==
    /\ schema.outages < MaxOutages
    /\ reachable' = ~reachable
    /\ schema' = [schema EXCEPT !.outages = @ + 1]
    /\ UNCHANGED <<driver, conn_error, graph, clock, input, callVars, result, cq, reply, writers, app>>

\* main calls the setup on a manager it initialized; a manager that was not
\* initialized has no driver
InitSchema ==
    /\ driver \in {"open", "None"}
    /\ reachable = TRUE
    /\ InitCommon
    /\ input = <<>>

NextSchema ==
    \/ create_constraints_and_indexes
    \/ setup_statement
    \/ setup_return
    \/ Outage

SpecSchema == InitSchema /\ [][NextSchema]_vars

-----------------------------------------------------------------------------
(* repositories/setup_repository.py: the MERGE of a shared node, by two     *)
(* item transactions at once. A transaction reads the committed store when  *)
(* its MERGE matches and writes when it commits; under a uniqueness         *)
(* constraint on the label and property merged, the store locks the value   *)
(* and the MERGE matches and creates in one step.                           *)

SharedLabels == {"Concept", "SubConcept", "SolutionApproach"}
SharedNames  == {<<"x">>, <<"y">>}

\* a uniqueness constraint of the store over the label and the property
UniqueOn(declared, label, key) ==
    \E o \in declared :
        o.kind = "CONSTRAINT" /\ o.label = label /\ o.on = <<key>>

WritersFrame ==
    UNCHANGED <<connVars, clock, input, callVars, result, cq, reply, schema, app>>

\* MERGE (c:label {name: name}) in an open transaction: the match, against
\* what is committed
merge_match(w) ==
    /\ schema.pc = "returned"
    /\ SessionError = ""
    /\ writers[w].pc = "idle"
    /\ \E label \in SharedLabels, name \in SharedNames :
          writers' = [writers EXCEPT ![w] =
                        [pc |-> "matched", label |-> label, name |-> name,
                         seen |-> MatchNodes(graph, label, "name", name) # {}]]
    /\ graph' = graph
    /\ WritersFrame

\* the transaction commits: under the constraint the MERGE held the lock of
\* the value and creates only when no node is committed; without it the node
\* is created when the match saw none
merge_commit(w) ==
    /\ writers[w].pc = "matched"
    /\ LET t == writers[w]
       IN  graph' = IF UniqueOn(schema.declared, t.label, "name")
                    THEN MergeNode(graph, t.label, "name", t.name)
                    ELSE IF t.seen THEN graph
                    ELSE MergeNodeAlways(graph, t.label, "name", t.name)
    /\ writers' = [writers EXCEPT ![w].pc = "committed"]
    /\ WritersFrame

\* main: the manager is initialized, the setup runs, the items are written
InitAtomic ==
    /\ driver = "open"
    /\ reachable = TRUE
    /\ InitCommon
    /\ input = <<>>

NextAtomic ==
    \/ create_constraints_and_indexes
    \/ setup_statement
    \/ setup_return
    \/ \E w \in Writers : merge_match(w)
    \/ \E w \in Writers : merge_commit(w)

SpecAtomic == InitAtomic /\ [][NextAtomic]_vars

-----------------------------------------------------------------------------
(* main.py: main, a step for each call it makes, on a manager that may have *)
(* been initialized and closed before.                                     *)

\* except (StudentNotFoundError, DataValidationError, DatabaseConnectionError)
Handled == {"StudentNotFoundError", "DataValidationError", "DatabaseConnectionError"}

\* create_constraints_and_indexes from its statement k on
RECURSIVE DeclareAll(_, _)
DeclareAll(declared, k) ==
    IF k > Len(constraints_and_indexes) THEN declared
    ELSE DeclareAll(Declare(declared, constraints_and_indexes[k]), k + 1)

MainFrame == UNCHANGED <<reachable, clock, input, callVars, result, cq, reply, writers>>

\* calls of the manager made before main is
early_initialize == app.pc = "idle" /\ initialize_connection

early_close == app.pc = "idle" /\ close_connection

\* db_manager = DatabaseManager()
main_begin ==
    /\ app.pc = "idle"
    /\ CallIdle
    /\ app' = [app EXCEPT !.pc = "initialize"]
    /\ UNCHANGED <<driver, conn_error, graph, schema>>
    /\ MainFrame

\* db_manager.initialize_connection(...)
main_initialize ==
    /\ app.pc = "initialize"
    /\ \E r \in {InitializeDriver(driver, reachable, app.live),
                 InitializeBadUri(driver, app.live)} :
           /\ driver' = r.driver
           /\ conn_error' = r.err
           /\ app' = [pc   |-> IF r.err = "" THEN "setup" ELSE "finally",
                      live |-> r.live, exit |-> r.err]
    /\ UNCHANGED <<graph, schema>>
    /\ MainFrame

\* setup_repo.create_constraints_and_indexes(): it raises nothing
main_setup ==
    /\ app.pc = "setup"
    /\ schema' = [schema EXCEPT !.declared = DeclareAll(@, 1)]
    /\ app' = [app EXCEPT !.pc = "populate"]
    /\ UNCHANGED <<driver, conn_error, graph>>
    /\ MainFrame

\* data_population_service.populate_from_json_file(file_path=...): all the
\* items are in one batch of the default size
main_populate ==
    /\ app.pc = "populate"
    /\ \E kind \in FileKinds :
          IF LoadError(kind) # ""
          THEN /\ app' = [app EXCEPT !.pc = "finally", !.exit = LoadError(kind)]
               /\ graph' = graph
          ELSE /\ app' = [app EXCEPT !.pc = "student"]
               /\ graph' = PopulateAll(driver, reachable, graph,
                                       _validate_data_items(input).valid_items,
                                       clock)
    /\ UNCHANGED <<driver, conn_error, schema>>
    /\ MainFrame

\* student_repo.create_or_update_student(student)
main_student ==
    /\ app.pc = "student"
    /\ IF SessionError # ""
       THEN /\ app' = [app EXCEPT !.pc = "finally", !.exit = SessionError]
            /\ graph' = graph
       ELSE /\ app' = [app EXCEPT !.pc = "finally"]
            /\ graph' = MergeStudent(graph, "s1", "n", "e", clock)
    /\ UNCHANGED <<driver, conn_error, schema>>
    /\ MainFrame

\* the except clause when the exception is one it names, and finally:
\* db_manager.close_connection(); an exception of another class goes on to
\* the caller of main
main_finally ==
    /\ app.pc = "finally"
    /\ LET r == CloseDriver(driver, app.live)
       IN  /\ driver' = r.driver
           /\ app' = [app EXCEPT
                         !.pc = IF app.exit = "" \/ app.exit \in Handled
                                THEN "returned" ELSE "propagated",
                         !.live = r.live]
    /\ UNCHANGED <<conn_error, graph, schema>>
    /\ MainFrame

MainPool == {ItemFull, ItemPlain, ItemNoTitle}

\* a manager nothing was called on
InitMain ==
    /\ driver = "None"
    /\ reachable \in BOOLEAN
    /\ InitCommon
    /\ Range(input) \subseteq MainPool

NextMain ==
    \/ early_initialize
    \/ early_close
    \/ NetworkChange
    \/ main_begin
    \/ main_initialize
    \/ main_setup
    \/ main_populate
    \/ main_student
    \/ main_finally

SpecMain == InitMain /\ [][NextMain]_vars

-----------------------------------------------------------------------------
(* What the properties below speak of.                                     *)

\* the transactions of the current populate call, in the order they ran
RunLog == SelectSeq(txlog, LAMBDA e : e.run = runs)

\* the positions of RunLog whose transaction raised
FailedAt == {n \in DOMAIN RunLog : RunLog[n].err # ""}

\* the graph after the upsert of every entry of es, in order, from g
RECURSIVE UpsertAll(_, _)
UpsertAll(g, es) ==
    IF es = <<>> THEN g
    ELSE UpsertAll(populate_question_and_concepts_transaction(
                       g, Head(es).item, Head(es).now).g, Tail(es))

\* the names of a list that the engine links: trimmed, blank ones dropped
LinkedNames(names) == {strip(names[n]) : n \in DOMAIN names} \ {<<>>}

\* label and identifying property of a node
NodeKey(n) ==
    <<n.label,
      n.props[CASE n.label = "Question" -> "id"
                [] n.label = "Student"  -> "student_id"
                [] OTHER                -> "name"]>>

NodeKeys(g) == [n \in DOMAIN g.nodes |-> NodeKey(g.nodes[n])]

\* no two nodes with one identity, no two relationships between the same nodes
NoDuplicates(g) ==
    /\ Cardinality(Range(NodeKeys(g))) = Len(g.nodes)
    /\ \A r \in BagToSet(g.rels) : CopiesIn(r, g.rels) = 1
    /\ Cardinality({<<r.type, r.src, r.dst>> : r \in BagToSet(g.rels)})
          = Cardinality(BagToSet(g.rels))

\* the graph g holds a node of the label for each non-blank name of the list,
\* trimmed, and an edge of the type from the node q to it
LinkedTo(g, q, label, type, names) ==
    \A name \in LinkedNames(names) :
        \E c \in DOMAIN g.nodes :
            /\ NodeKey(g.nodes[c]) = <<label, name>>
            /\ MatchRels(g, type, q, c) # {}

\* the graph g holds the complete upsert of the item: its question, and the
\* concepts, sub-concepts and approaches it names, each linked to the question
CompleteUpsert(g, item) ==
    \E q \in DOMAIN g.nodes :
        /\ NodeKey(g.nodes[q]) = <<"Question", item.id>>
        /\ LinkedTo(g, q, "Concept", "INVOLVES_CONCEPT",
                    Get(item, "standard_concepts", <<>>))
        /\ LinkedTo(g, q, "SubConcept", "INVOLVES_SUBCONCEPT",
                    Get(item, "sub_concepts", <<>>))
        /\ LinkedTo(g, q, "SolutionApproach", "HAS_SOLUTION_APPROACH",
                    [n \in DOMAIN Get(item, "solution_approaches", <<>>) |->
                        item.solution_approaches[n].approach_name])

\* the attributes the upsert of the item at instant now gives its question
QuestionProps(item, now) ==
    [id |-> item.id, question_title |-> item.question_title,
     question |-> item.question, difficulty |-> item.difficulty,
     step_number |-> item.step_no, sub_step_number |-> item.sub_step_no,
     sequence_number |-> item.sl_no, updated_at |-> now]

\* the graph g holds a question with these attributes, whatever its created_at
HasQuestion(g, p) ==
    \E q \in DOMAIN g.nodes :
        /\ g.nodes[q].label = "Question"
        /\ [key \in DOMAIN g.nodes[q].props \ {"created_at"} |->
               g.nodes[q].props[key]] = p

\* When a call over valid items only returns and the transaction of exactly
\* one item k failed: the report names k alone as failed and counts the others
\* as processed, the graph is the one the upserts of the others alone produce,
\* and it holds no question of k's id unless a committed transaction wrote
\* that id.
IsolationOfTransactions ==
    (pc = "returned" /\ invalid_items = <<>> /\ Cardinality(FailedAt) = 1) =>
        LET k      == CHOOSE n \in FailedAt : TRUE
            others == SelectSeq(RunLog, LAMBDA e : e.err = "")
        IN  /\ Len(RunLog) = Len(data)
            /\ \A n \in DOMAIN RunLog : RunLog[n].item = data[n]
            /\ stats.failed_item_ids = <<ItemId(data[k])>>
            /\ stats.failed_items = 1
            /\ stats.processed_items = Len(data) - 1
            /\ graph = UpsertAll(graph0, others)
            /\ (\A n \in DOMAIN txlog :
                    txlog[n].err = "" => txlog[n].item.id # data[k].id)
                  => MatchNodes(graph, "Question", "id", data[k].id) = {}

\* C1: per-item isolation.  When a call over valid items only returns and the
\* transaction of exactly one item k failed, the report names k alone as
\* failed and counts the others as processed, the graph holds nothing that
\* k's transaction wrote, and it holds the complete upsert of every other
\* item: its question and the concept, sub-concept and approach nodes and
\* edges the item names.
C1_Isolation ==
    /\ IsolationOfTransactions
    /\ (pc = "returned" /\ invalid_items = <<>> /\ Cardinality(FailedAt) = 1) =>
          \A n \in DOMAIN RunLog :
              n \notin FailedAt => CompleteUpsert(graph, RunLog[n].item)

\* C2: idempotence of the upsert.  When the same array is ingested again, the
\* second call leaves the nodes and the edges the first one left, none of them
\* twice, each question with the attributes of the latest upsert of its id,
\* and reports the processed count of the first; and from the graph a call
\* from a list in batches of one leaves, the upsert of any item, run twice,
\* gives the graph it gives run once, and run again later the same nodes and
\* edges with the attributes of the later run.
C2_Idempotence ==
    pc = "returned" =>
        /\ NoDuplicates(graph)
        /\ \A n \in DOMAIN RunLog :
              (RunLog[n].err = "" /\
               \A m \in DOMAIN RunLog :
                   m > n /\ RunLog[m].err = "" => RunLog[m].item.id # RunLog[n].item.id)
              => HasQuestion(graph, QuestionProps(RunLog[n].item, RunLog[n].now))
        /\ prev.returned =>
              /\ NodeKeys(graph) = NodeKeys(graph0)
              /\ graph.rels = graph0.rels
              /\ stats.processed_items = prev.processed_items
        /\ \A item \in ItemPool :
              LET once == write_transaction(graph, item, clock)
              IN  (entry = "list" /\ batch_size = 1 /\ once.err = "") =>
                     /\ NoDuplicates(once.g)
                     /\ \A t \in clock..MaxClock :
                           LET again == write_transaction(once.g, item, t)
                           IN  /\ again.err = ""
                               /\ NodeKeys(again.g) = NodeKeys(once.g)
                               /\ again.g.rels = once.g.rels
                               /\ t = clock => again.g = once.g
                               /\ HasQuestion(again.g, QuestionProps(item, t))

\* the same array was ingested a second time, at a later instant, and items
\* were upserted again
C2_Witness ==
    /\ pc = "returned"
    /\ prev.returned
    /\ stats.processed_items >= 1
    /\ \E n \in DOMAIN RunLog : RunLog[n].err = "" /\ RunLog[n].now > 0
    /\ graph # graph0
    /\ graph0 # EmptyGraph

\* C3: a call from a list never raises for the failure of an item.  The call
\* is never left by an exception; when it returns, a transaction was run for
\* every valid item, in order, the id of every item whose transaction failed
\* is in failed_item_ids, and every item after a failing one that did not fail
\* itself was committed and its question is in the graph.
C3_ListNeverRaises ==
    entry = "list" =>
        /\ pc # "raised"
        /\ raised = ""
        /\ pc = "returned" =>
              /\ stats.returned
              /\ Len(RunLog) = Len(valid_data)
              /\ \A n \in DOMAIN RunLog : RunLog[n].item = valid_data[n]
              /\ \A n \in FailedAt :
                    \E m \in DOMAIN stats.failed_item_ids :
                        stats.failed_item_ids[m] = ItemId(RunLog[n].item)
              /\ Len(stats.failed_item_ids) = Cardinality(FailedAt)
              /\ \A n \in FailedAt, m \in DOMAIN RunLog :
                    m > n /\ m \notin FailedAt =>
                        MatchNodes(graph, "Question", "id", RunLog[m].item.id) # {}

\* a call from a list returned whose first item failed and whose second item,
\* in a batch of its own, was committed
C3_Witness ==
    /\ entry = "list"
    /\ pc = "returned"
    /\ batch_size = 1
    /\ Len(RunLog) = 2
    /\ FailedAt = {1}
    /\ stats.failed_item_ids = <<"q3">>
    /\ MatchNodes(graph, "Question", "id", RunLog[2].item.id) # {}

\* C4: full accounting.  The report of a call, whatever the batch size, has
\* total_items equal to the sum of the processed, failed and invalid counts,
\* as many failed and invalid ids as the counts say, and counts every item of
\* the input once: the processed ones are the committed transactions, the
\* failed ones the transactions that raised, the invalid ones the items no
\* transaction was run for.
C4_FullAccounting ==
    pc = "returned" =>
        /\ batch_size >= 1
        /\ stats.total_items = Len(data)
        /\ stats.total_items =
              stats.processed_items + stats.failed_items + stats.invalid_items
        /\ Len(stats.failed_item_ids) = stats.failed_items
        /\ Len(stats.invalid_item_ids) = stats.invalid_items
        /\ stats.processed_items = Len(RunLog) - Cardinality(FailedAt)
        /\ stats.failed_items = Cardinality(FailedAt)
        /\ \A n \in DOMAIN data :
              LET runs_of == {m \in DOMAIN RunLog : RunLog[m].item = data[n]}
                  invalid == {m \in DOMAIN invalid_items : invalid_items[m] = data[n]}
              IN  Cardinality(runs_of) + Cardinality(invalid) = 1

\* a report of two items, one failed and one invalid, each named in its list
C4_Witness ==
    /\ pc = "returned"
    /\ stats.total_items = 2
    /\ stats.processed_items = 0
    /\ stats.failed_item_ids = <<"q3">>
    /\ stats.invalid_item_ids = <<"q4">>

\* C5: an item missing one of the seven required fields is rejected before
\* ingestion.  No transaction is ever run for such an item; when a call
\* returns, each such item of the input is counted in invalid_items with its
\* id (N/A when it has none) in invalid_item_ids, and a transaction was run
\* for every item of the input that has the seven fields.
C5_MissingFieldRejected ==
    LET seven == {"id", "question_title", "question", "difficulty",
                  "step_no", "sub_step_no", "sl_no"}
        lacking(item) == ~(seven \subseteq DOMAIN item)
        bad == SelectSeq(data, lacking)
    IN  /\ \A n \in DOMAIN txlog : ~lacking(txlog[n].item)
        /\ pc \in {"loop", "batch", "returned"} =>
              /\ invalid_items = bad
              /\ \A n \in DOMAIN batch : ~lacking(batch[n])
        /\ pc = "returned" =>
              /\ stats.invalid_items = Len(bad)
              /\ stats.invalid_item_ids =
                    [n \in DOMAIN bad |->
                        IF "id" \in DOMAIN bad[n] THEN bad[n].id ELSE "N/A"]
              /\ \A n \in DOMAIN data :
                    ~lacking(data[n]) =>
                        \E m \in DOMAIN RunLog : RunLog[m].item = data[n]

\* a call returned that rejected its first item, which has no title, and ran
\* the transaction of the second
C5_Witness ==
    /\ pc = "returned"
    /\ Len(data) = 2
    /\ "question_title" \notin DOMAIN data[1]
    /\ stats.invalid_item_ids = <<data[1].id>>
    /\ stats.processed_items = 1
    /\ MatchNodes(graph, "Question", "id", data[2].id) # {}

\* C6: an item with the seven required fields whose question_title is empty
\* after trimming is rejected by a call: it is counted invalid and no
\* transaction creates or updates a question for it.
C6_BlankTitleRejected ==
    pc = "returned" =>
        \A n \in DOMAIN data :
            (missing_fields(data[n]) = <<>> /\ strip(data[n].question_title) = <<>>) =>
                /\ \E m \in DOMAIN invalid_items : invalid_items[m] = data[n]
                /\ data[n].id \in Range(stats.invalid_item_ids)
                /\ \A m \in DOMAIN RunLog :
                      RunLog[m].item = data[n] => RunLog[m].err # ""

\* C7: errors of the source are fatal and leave no trace.  While the last
\* call is one from a file that is missing, unreadable, not JSON or not an
\* array, the call has raised, no report was returned, no transaction was run
\* in it and the graph is the one the call found.
C7_SourceErrorsFatal ==
    (entry = "file" /\ file_kind # "array") =>
        /\ pc = "raised"
        /\ raised \in {"FileNotFoundError", "DataValidationError"}
        /\ (file_kind = "missing") = (raised = "FileNotFoundError")
        /\ ~stats.returned
        /\ RunLog = <<>>
        /\ valid_data = <<>>
        /\ graph = graph0

\* a call from a file that holds no array raised, over a graph that an earlier
\* call had written
C7_Witness ==
    /\ pc = "raised"
    /\ entry = "file"
    /\ file_kind = "not_array"
    /\ raised = "DataValidationError"
    /\ graph # EmptyGraph
    /\ input # <<>>

\* C8: failures of the connection leave the call.  When a call returns a
\* report, no transaction of the call met a store that was uninitialized or
\* out of reach.
C8_ConnectivityPropagates ==
    pc = "returned" =>
        \A n \in DOMAIN RunLog :
            RunLog[n].err \notin {"RuntimeError", "ServiceUnavailable"}

\* the questions of the graph that the student has a MASTERED edge to
MasteredBy(g, sid) ==
    {q \in DOMAIN g.nodes :
        /\ g.nodes[q].label = "Question"
        /\ \E s \in DOMAIN g.nodes, r \in BagToSet(g.rels) :
              /\ g.nodes[s].label = "Student"
              /\ g.nodes[s].props.student_id = sid
              /\ r.type = "MASTERED" /\ r.src = s /\ r.dst = q}

\* the question of the graph that a returned row is about
NodeOfRow(g, row) ==
    CHOOSE q \in DOMAIN g.nodes :
        g.nodes[q].label = "Question" /\ <<g.nodes[q].props.id>> = row.id

\* the curriculum position the upsert engine wrote on a question
Triple(n) == <<n.props.step_number, n.props.sub_step_number, n.props.sequence_number>>

TripleLeq(a, b) ==
    \/ a[1] < b[1]
    \/ a[1] = b[1] /\ a[2] < b[2]
    \/ a[1] = b[1] /\ a[2] = b[2] /\ a[3] <= b[3]

\* C9: curriculum ordering.  The rows find_unmastered_questions_for_student
\* returns are in ascending order of the triple (step_number,
\* sub_step_number, sequence_number) the ingested items gave their questions.
C9_CurriculumOrder ==
    result # <<>> =>
        \A a, b \in DOMAIN result.rows :
            a < b => TripleLeq(Triple(graph.nodes[NodeOfRow(graph, result.rows[a])]),
                               Triple(graph.nodes[NodeOfRow(graph, result.rows[b])]))

\* C10: exclusion correctness.  No row returned for student S is a question
\* S has a MASTERED edge to; and a question S has no MASTERED edge to is
\* returned, whoever else has mastered it, unless limit cuts the result short:
\* the result has as many rows as there are such questions, or limit rows.
C10_Exclusion ==
    result # <<>> =>
        LET mastered == MasteredBy(graph, result.student)
            open     == NodesOf(graph, "Question") \ mastered
            returned == {NodeOfRow(graph, result.rows[n]) : n \in DOMAIN result.rows}
        IN  /\ returned \cap mastered = {}
            /\ returned \subseteq open
            /\ Cardinality(returned) = Len(result.rows)
            /\ Len(result.rows) = Min(result.limit, Cardinality(open))
            /\ result.limit >= Cardinality(open) => returned = open

\* the rows returned for a student leave out a question the student has
\* mastered and hold a question that only the other student has mastered
C10_Witness ==
    /\ result # <<>>
    /\ MasteredBy(graph, result.student) # {}
    /\ \E n \in DOMAIN result.rows, other \in Students \ {result.student} :
          NodeOfRow(graph, result.rows[n]) \in MasteredBy(graph, other)

\* C11: completeness and truncation.  The rows returned for student S with a
\* limit are the first min(limit, n) of the n questions S has no MASTERED
\* edge to, in curriculum order: there are min(limit, n) rows, each a
\* different such question, in ascending order of the triple, and no question
\* left out comes before a returned one in that order.
C11_FirstOfCurriculum ==
    result # <<>> =>
        LET open     == NodesOf(graph, "Question") \ MasteredBy(graph, result.student)
            node(n)  == NodeOfRow(graph, result.rows[n])
            returned == {node(n) : n \in DOMAIN result.rows}
        IN  /\ Len(result.rows) = Min(result.limit, Cardinality(open))
            /\ Len(result.rows) <= result.limit
            /\ returned \subseteq open
            /\ Cardinality(returned) = Len(result.rows)
            /\ result.limit >= Cardinality(open) => returned = open
            /\ \A a, b \in DOMAIN result.rows :
                  a < b => TripleLeq(Triple(graph.nodes[node(a)]),
                                     Triple(graph.nodes[node(b)]))
            /\ \A q \in open \ returned, r \in returned :
                  TripleLeq(Triple(graph.nodes[r]), Triple(graph.nodes[q]))

\* the names of the nodes of a label that the question of the id has an edge
\* of the type to
LinkedFrom(g, id, type, label) ==
    {g.nodes[c].props.name :
        c \in {c \in NodesOf(g, label) :
                 \E q \in MatchNodes(g, "Question", "id", id) :
                     MatchRels(g, type, q, c) # {}}}

\* the committed transactions of the log whose item is the only one of its id
\* that was committed: its question was new and was not upserted again
UpsertedOnce ==
    {n \in DOMAIN txlog :
        /\ txlog[n].err = ""
        /\ \A m \in DOMAIN txlog :
              m # n /\ txlog[m].err = "" => txlog[m].item.id # txlog[n].item.id}

\* C16: after the upsert of an item whose question the graph did not hold, the
\* Concept nodes the question has an INVOLVES_CONCEPT edge to are those of the
\* trimmed non-blank names of the item's standard_concepts, none when the item
\* has no such list, whatever its sub_concepts.
C16_ConceptsFromStandardList ==
    \A n \in UpsertedOnce :
        LinkedFrom(graph, txlog[n].item.id, "INVOLVES_CONCEPT", "Concept")
            = LinkedNames(Get(txlog[n].item, "standard_concepts", <<>>))

\* the committed transactions of the log that upserted the question of the id
UpsertsOf(id) ==
    {n \in DOMAIN txlog : txlog[n].err = "" /\ txlog[n].item.id = id}

\* C17: created_at is write-once.  Every question carries as created_at the
\* instant of the first upsert of its id, the one that created the node, and
\* as updated_at the instant of the latest.
C17_CreatedAtWriteOnce ==
    \A q \in NodesOf(graph, "Question") :
        LET ups   == UpsertsOf(graph.nodes[q].props.id)
            first == CHOOSE n \in ups : \A m \in ups : n <= m
            last  == CHOOSE n \in ups : \A m \in ups : m <= n
        IN  /\ ups # {}
            /\ graph.nodes[q].props.updated_at = txlog[last].now
            /\ graph.nodes[q].props.created_at = txlog[first].now

\* the label of the node an edge of the type ends at
TargetLabel(type) ==
    CASE type = "INVOLVES_CONCEPT"      -> "Concept"
      [] type = "INVOLVES_SUBCONCEPT"   -> "SubConcept"
      [] type = "HAS_SOLUTION_APPROACH" -> "SolutionApproach"
      [] OTHER                          -> ""

\* every edge of the three types the engine writes starts at a question of
\* the graph g and ends at a node of g of the label of its type
EdgesSound(g) ==
    \A r \in BagToSet(g.rels) :
        TargetLabel(r.type) # "" =>
            /\ r.src \in DOMAIN g.nodes
            /\ r.dst \in DOMAIN g.nodes
            /\ g.nodes[r.src].label = "Question"
            /\ g.nodes[r.dst].label = TargetLabel(r.type)

ApproachesNamed(item, a) ==
    {k \in DOMAIN Get(item, "solution_approaches", <<>>) :
        strip(item.solution_approaches[k].approach_name) = a}

\* C19: last write wins on a shared approach.  Every SolutionApproach node
\* carries the trimmed explanation given by the last committed transaction,
\* in the order the items were run, whose item names the approach (by the
\* last approach of that name in the item); a transaction that failed leaves
\* the explanation as it was.
C19_LastExplanationWins ==
    \A sa \in NodesOf(graph, "SolutionApproach") :
        LET a    == graph.nodes[sa].props.name
            refs == {n \in DOMAIN txlog :
                        txlog[n].err = "" /\ ApproachesNamed(txlog[n].item, a) # {}}
            last == CHOOSE n \in refs : \A m \in refs : m <= n
            ks   == ApproachesNamed(txlog[last].item, a)
            k    == CHOOSE x \in ks : \A y \in ks : y <= x
        IN  /\ refs # {}
            /\ graph.nodes[sa].props.explanation =
                  strip(txlog[last].item.solution_approaches[k].explanation)

\* two committed items of one call gave approach x different explanations,
\* and the node has that of the second
C19_Witness ==
    /\ pc = "returned"
    /\ Len(RunLog) = 2
    /\ FailedAt = {}
    /\ ApproachesNamed(RunLog[1].item, <<"x">>) # {}
    /\ ApproachesNamed(RunLog[2].item, <<"x">>) # {}
    /\ \E sa \in MatchNodes(graph, "SolutionApproach", "name", <<"x">>) :
          graph.nodes[sa].props.explanation =
             strip(RunLog[2].item.solution_approaches[1].explanation)
    /\ RunLog[1].item.solution_approaches[1].explanation
          # RunLog[2].item.solution_approaches[1].explanation

\* approach x has the explanation of a committed item although a later
\* transaction that failed had written another one
C19_WitnessFailed ==
    /\ pc = "returned"
    /\ Len(RunLog) = 2
    /\ FailedAt = {2}
    /\ ApproachesNamed(RunLog[1].item, <<"x">>) # {}
    /\ ApproachesNamed(RunLog[2].item, <<"x">>) # {}

\* C12: complete_question with is_mastered is atomic on failure.  When the
\* call was left by a failure of the question-mastery write or of the
\* sub-concept write, after the attempt write had succeeded, the student has
\* the edges to the question it had when the call began: the ATTEMPTED edge,
\* and a MASTERED edge already written, are rolled back.
C12_AtomicOnFailure ==
    (cq.pc = "raised" /\ cq.is_mastered /\ cq.at \in {"mastered", "subconcepts"}) =>
        EdgesBefore(graph, cq.student_id, cq.question_id).types = cq.before.types


\* the committed transactions of the log that upserted the question of id
Ingested(id) ==
    {n \in DOMAIN txlog : txlog[n].err = "" /\ txlog[n].item.id = id}

\* C13: complete_question(S, Q, True) that returned, for a registered student
\* S that had no edge when the call began and a question Q ingested with a
\* sub_concepts list that names a sub-concept, leaves exactly one ATTEMPTED
\* edge S->Q, exactly one MASTERED edge S->Q, and one MASTERED edge from S to
\* the SubConcept node of each name of the list.
C13_CompletionEdges ==
    (cq.pc = "done" /\ cq.is_mastered /\ ~cq.before.any) =>
        \A n \in Ingested(cq.question_id) :
            LET names == LinkedNames(Get(txlog[n].item, "sub_concepts", <<>>))
            IN  names # {} =>
                \A s \in MatchNodes(graph, "Student", "student_id", cq.student_id),
                   q \in MatchNodes(graph, "Question", "id", cq.question_id) :
                    /\ SumCopies(graph.rels, MatchRels(graph, "ATTEMPTED", s, q)) = 1
                    /\ SumCopies(graph.rels, MatchRels(graph, "MASTERED", s, q)) = 1
                    /\ \A name \in names :
                          \E sc \in MatchNodes(graph, "SubConcept", "name", name) :
                              SumCopies(graph.rels,
                                        MatchRels(graph, "MASTERED", s, sc)) = 1


\* the (name, explanation) pairs the engine keeps of an item's approaches
ApproachPairs(item) ==
    {<<strip(item.solution_approaches[k].approach_name),
       strip(item.solution_approaches[k].explanation)>> :
        k \in {k \in DOMAIN item.solution_approaches :
                  strip(item.solution_approaches[k].approach_name) # <<>>}}

\* C14: round trip of the solution approaches.  find_question_by_id of the id
\* of an item the pipeline upserted, when it returns, returns a Question whose
\* solution_approaches hold the same set of (name, explanation) pairs as the
\* item's solution_approaches list.
C14_ApproachesRoundTrip ==
    (reply.op = "find_question_by_id" /\ reply.err = "") =>
        \A n \in Ingested(reply.args[1]) :
            "solution_approaches" \in DOMAIN txlog[n].item =>
                /\ reply.found
                /\ {<<a.name, a.explanation>> :
                       a \in Range(reply.value.solution_approaches)}
                      = ApproachPairs(txlog[n].item)


\* the ids of the committed items that list the concept name among their
\* standard concepts or their sub-concepts
ItemsAbout(concept_name) ==
    {txlog[n].item.id :
        n \in {n \in DOMAIN txlog :
                  /\ txlog[n].err = ""
                  /\ concept_name \in
                        LinkedNames(Get(txlog[n].item, "standard_concepts", <<>>))
                        \cup LinkedNames(Get(txlog[n].item, "sub_concepts", <<>>))}}

\* C20: the concept-filtered query.  find_questions_by_concept_for_student
\* (S, c, limit) for an existing student S, over a store within reach,
\* returns without error; its rows are questions S has not mastered whose
\* item lists c, in curriculum order, min(limit, n) of the n there are.
C20_ConceptQuery ==
    (/\ reply.op = "find_questions_by_concept_for_student"
     /\ reply.known
     /\ reply.session = "") =>
        LET about == ItemsAbout(reply.args[2])
                        \ {graph.nodes[q].props.id : q \in MasteredBy(graph, reply.args[1])}
        IN  /\ reply.err = ""
            /\ Len(reply.value) = Min(reply.args[3], Cardinality(about))
            /\ \A k \in DOMAIN reply.value : PyValue(reply.value[k].id) \in about
            /\ \A a, b \in DOMAIN reply.value :
                  a < b => TripleLeq(
                              Triple(graph.nodes[NodeOfRow(graph, reply.value[a])]),
                              Triple(graph.nodes[NodeOfRow(graph, reply.value[b])]))


\* every declaration of the list is in the store, or a declaration of its
\* name or over its label and properties is
SchemaExists(declared) ==
    \A n \in DOMAIN constraints_and_indexes :
        Standing(declared, constraints_and_indexes[n]) # {}

\* C15: schema setup is best-effort per statement.  The statements
\* create_constraints_and_indexes has issued are the first ones of its list,
\* in list order, whatever failed; the call is in its loop or has returned,
\* never left by an exception, and when it has returned it has issued the
\* whole list; and a call made on a store where the schema exists already
\* leaves the schema as it found it.
C15_BestEffortSetup ==
    /\ schema.pc \in {"idle", "loop", "returned"}
    /\ schema.issued = [n \in 1..Len(schema.issued) |-> n]
    /\ schema.pc = "loop" => Len(schema.issued) = schema.k - 1
    /\ schema.pc = "returned" => Len(schema.issued) = Len(constraints_and_indexes)
    /\ (schema.pc \in {"loop", "returned"} /\ SchemaExists(schema.before)) =>
           schema.declared = schema.before

\* a call returned after a declaration failed, out of reach of the store, and
\* a later one of the list was made
C15_Witness ==
    /\ schema.pc = "returned"
    /\ \E n, m \in DOMAIN constraints_and_indexes :
          /\ n < m
          /\ Standing(schema.declared, constraints_and_indexes[n]) = {}
          /\ constraints_and_indexes[m] \in schema.declared \ schema.before

\* a second call returned on a store where the schema existed already
C15_WitnessAgain ==
    /\ schema.pc = "returned"
    /\ schema.calls = 2
    /\ SchemaExists(schema.before)
    /\ schema.declared = schema.before


\* the graph holds a student of the id
StudentExists(g, sid) ==
    \E s \in DOMAIN g.nodes :
        g.nodes[s].label = "Student" /\ g.nodes[s].props.student_id = sid

\* the graph holds a question of the id
QuestionExists(g, qid) ==
    \E q \in DOMAIN g.nodes :
        g.nodes[q].label = "Question" /\ g.nodes[q].props.id = qid

\* C21: absence at the recommendation boundary.  Over a store within reach,
\* get_next_recommended_question(S) and get_questions_by_concept(S, c) raise
\* StudentNotFoundError exactly when the graph has no student S;
\* get_next_recommended_question returns None without error exactly when S
\* exists and every question is mastered by S; find_question_by_id and
\* find_student_by_id return None without error exactly when the node is
\* not there.
C21_AbsenceHandling ==
    reply.op # "none" /\ reply.op # "find_questions_by_concept_for_student"
        /\ reply.session = "" =>
        /\ reply.op \in {"get_next_recommended_question", "get_questions_by_concept"} =>
              (reply.err = "StudentNotFoundError"
                  <=> ~StudentExists(graph, reply.args[1]))
        /\ reply.op = "get_next_recommended_question" =>
              ((reply.err = "" /\ ~reply.found)
                  <=> /\ StudentExists(graph, reply.args[1])
                      /\ NodesOf(graph, "Question") \subseteq
                            MasteredBy(graph, reply.args[1]))
        /\ reply.op = "find_question_by_id" =>
              /\ reply.err = ""
              /\ reply.found <=> QuestionExists(graph, reply.args[1])
        /\ reply.op = "find_student_by_id" =>
              /\ reply.err = ""
              /\ reply.found <=> StudentExists(graph, reply.args[1])

\* get_next_recommended_question returned None for a registered student who
\* has mastered every question of a graph that has one
C21_Witness ==
    /\ reply.op = "get_next_recommended_question"
    /\ reply.session = ""
    /\ reply.err = ""
    /\ ~reply.found
    /\ StudentExists(graph, reply.args[1])
    /\ NodesOf(graph, "Question") # {}

\* get_questions_by_concept raised StudentNotFoundError for a student the
\* graph, which has another student, does not hold
C21_WitnessNotFound ==
    /\ reply.op = "get_questions_by_concept"
    /\ reply.err = "StudentNotFoundError"
    /\ NodesOf(graph, "Student") # {}

\* the first question of the curriculum among those the student has not
\* mastered, by the positions the items gave
FirstOpen(g, sid) ==
    {q \in NodesOf(g, "Question") \ MasteredBy(g, sid) :
        \A o \in NodesOf(g, "Question") \ MasteredBy(g, sid) :
            TripleLeq(Triple(g.nodes[q]), Triple(g.nodes[o]))}

\* C30: recommendation progress.  The question get_next_recommended_question
\* (S) returns is the first, in curriculum order, of the questions S has not
\* mastered; it is never one S has mastered, so that a student who masters
\* each question recommended is recommended no question twice.
C30_RecommendsFirstOpen ==
    (reply.op = "get_next_recommended_question" /\ reply.found) =>
        NodeOfRow(graph, reply.value) \in FirstOpen(graph, reply.args[1])

\* C22: get_all_questions(limit) is capped.  With an explicit limit >= 0 the
\* result has at most limit questions; with no limit it has every question
\* of the graph; and the questions are in curriculum order.
C22_AllQuestionsCapped ==
    (reply.op = "get_all_questions" /\ reply.err = "") =>
        /\ reply.args[1] # <<>> => Len(reply.value) <= reply.args[1][1]
        /\ reply.args[1] = <<>> =>
              Len(reply.value) = Cardinality(NodesOf(graph, "Question"))
        /\ \A a, b \in DOMAIN reply.value :
              a < b => TripleLeq(
                          Triple(graph.nodes[NodeOfRow(graph, [id |-> <<reply.value[a].id>>])]),
                          Triple(graph.nodes[NodeOfRow(graph, [id |-> <<reply.value[b].id>>])]))


\* the items of the list d that have every required field, in order
WellFormed(d) ==
    SelectSeq(d, LAMBDA item :
        {"id", "question_title", "question", "difficulty",
         "step_no", "sub_step_no", "sl_no"} \subseteq DOMAIN item)

\* the items of the list d that lack a required field, in order
Malformed(d) ==
    SelectSeq(d, LAMBDA item :
        ~({"id", "question_title", "question", "difficulty",
           "step_no", "sub_step_no", "sl_no"} \subseteq DOMAIN item))

\* C23: validate-only mode has no store effect.  A step of
\* validate_data_structure, whatever is at file_path, with or without a
\* driver and within reach of the store or not, leaves the graph, the log of
\* the transactions and the items as they were; for an array it returns the
\* items that have every required field and those that lack one, each list
\* in input order, the items unchanged, and it raises for anything else.
C23_ValidateOnlyNoEffect ==
    [][reply' # reply =>
          /\ reply'.op = "validate_data_structure"
          /\ graph' = graph
          /\ txlog' = txlog
          /\ input' = input
          /\ reply'.err = "" <=> reply'.args[1] = "array"
          /\ reply'.err = "" =>
                /\ reply'.value.valid_items = WellFormed(input)
                /\ reply'.value.invalid_items = Malformed(input)
                /\ reply'.value.invalid_item_ids =
                      [n \in DOMAIN Malformed(input) |->
                          IF "id" \in DOMAIN Malformed(input)[n]
                          THEN Malformed(input)[n].id ELSE "N/A"]]_vars

\* validate_data_structure returned a partition with a valid and an invalid
\* item, on a manager without a driver, over a graph that stayed empty
C23_Witness ==
    /\ reply.op = "validate_data_structure"
    /\ reply.err = ""
    /\ reply.value.valid_items # <<>>
    /\ reply.value.invalid_items # <<>>
    /\ driver = "None"
    /\ graph = EmptyGraph

\* validate_data_structure returned the partition of items that an ingest
\* call had written to the graph before
C23_WitnessAfterIngest ==
    /\ reply.op = "validate_data_structure"
    /\ reply.err = ""
    /\ reply.value.valid_items # <<>>
    /\ pc = "returned"
    /\ graph # EmptyGraph


\* C24: use outside the life cycle of the connection fails as a connectivity
\* error.  Every operation of the manager called while it has no driver,
\* before initialize_connection or after close_connection, raises
\* DatabaseConnectionError and opens no session.
C24_UninitializedUse ==
    (reply.op \in ManagerOps /\ ~reply.had_driver) =>
        /\ reply.err = "DatabaseConnectionError"
        /\ reply.sessions = 0


\* C25: no partial visibility of complete_question.  A summary read while
\* complete_question(S, Q, True) runs, for a student S who had no ATTEMPTED
\* edge to Q when the call began, never lists Q as attempted and not as
\* mastered.
C25_NoPartialVisibility ==
    (/\ reply.op = "get_student_progress_summary"
     /\ reply.found
     /\ reply.during.pc \in {"attempted", "mastered", "subconcepts", "commit"}
     /\ reply.during.is_mastered
     /\ reply.during.student_id = reply.args[1]
     /\ "ATTEMPTED" \notin reply.during.before.types) =>
        ~(/\ reply.during.question_id \in reply.value.attempted_questions
          /\ reply.during.question_id \notin reply.value.mastered_questions)


\* the ids of the entries of a log whose transaction raised, in order
FailedIds(es) ==
    LET bad == SelectSeq(es, LAMBDA e : e.err # "")
    IN  [n \in DOMAIN bad |-> ItemId(bad[n].item)]

RECURSIVE OneByOne(_, _, _)
OneByOne(acc, vs, now) ==
    IF vs = <<>> THEN acc
    ELSE LET r == write_transaction(acc.g, Head(vs), now)
         IN  OneByOne(
                [g               |-> r.g,
                 processed_items |-> acc.processed_items + (IF r.err = "" THEN 1 ELSE 0),
                 failed_items    |-> acc.failed_items + (IF r.err = "" THEN 0 ELSE 1),
                 failed_item_ids |-> IF r.err = "" THEN acc.failed_item_ids
                                     ELSE Append(acc.failed_item_ids, ItemId(Head(vs)))],
                Tail(vs), now)

\* C27: batch size is not observable.  When a call returns, the graph and
\* the report are those the valid items give run one by one in input order,
\* for every batch size: a failure rolls back its own item only and no item
\* of its batch is skipped.
C27_BatchSizeUnobservable ==
    (pc = "returned" /\ RunLog # <<>>) =>
        LET one == OneByOne([g |-> graph0, processed_items |-> 0, failed_items |-> 0,
                             failed_item_ids |-> <<>>],
                            WellFormed(data), RunLog[1].now)
        IN  /\ graph = one.g
            /\ stats.total_items = Len(data)
            /\ stats.processed_items = one.processed_items
            /\ stats.failed_items = one.failed_items
            /\ stats.failed_item_ids = one.failed_item_ids
            /\ stats.invalid_items = Len(Malformed(data))
            /\ stats.invalid_item_ids =
                  [n \in DOMAIN Malformed(data) |-> ItemId(Malformed(data)[n])]

\* two items were run in batches of one, the first failed and the second in
\* the batch after it was committed
C27_Witness ==
    /\ pc = "returned"
    /\ batch_size = 1
    /\ Len(data) = 2
    /\ Len(RunLog) = 2
    /\ FailedAt = {1}
    /\ stats.processed_items = 1
    /\ MatchNodes(graph, "Question", "id", data[2].id) # {}

\* the same two items were run in one batch of two
C27_WitnessOneBatch ==
    /\ pc = "returned"
    /\ batch_size = 2
    /\ Len(data) = 2
    /\ Len(RunLog) = 2
    /\ FailedAt = {1}
    /\ stats.processed_items = 1


\* C28: no duplication.  After any sequence of ingest calls, registrations
\* and records of attempts and of mastery, and at every point between two
\* transactions of an ingest call, the graph holds at most one Question of
\* an id, one Concept, SubConcept and SolutionApproach of a name, one Student
\* of a student_id, and one edge of a type from a node to another.
C28_NoDuplication ==
    /\ NoDuplicates(graph)
    /\ \A a, b \in DOMAIN graph.nodes :
          (/\ graph.nodes[a].label = graph.nodes[b].label
           /\ NodeKey(graph.nodes[a]) = NodeKey(graph.nodes[b])) => a = b
    /\ \A r, t \in BagToSet(graph.rels) :
          (r.type = t.type /\ r.src = t.src /\ r.dst = t.dst) => r = t

\* a question was upserted by two items of a call and again by a second
\* call, and each of two students registered has an ATTEMPTED and a MASTERED
\* edge to it
C28_Witness ==
    /\ pc = "returned"
    /\ runs = 2
    /\ Len(RunLog) = 2
    /\ FailedAt = {}
    /\ Cardinality(NodesOf(graph, "Student")) = 2
    /\ \A s \in NodesOf(graph, "Student") :
          \E q \in NodesOf(graph, "Question") :
              /\ MatchRels(graph, "ATTEMPTED", s, q) # {}
              /\ MatchRels(graph, "MASTERED", s, q) # {}

\* C29: when two item transactions that run at once both merge a Concept,
\* SubConcept or SolutionApproach name that no node carried when they matched,
\* the committed graph holds exactly one node of that label and name
C29_AtomicMerge ==
    \A v, w \in Writers :
        (/\ v # w
         /\ writers[v].pc = "committed" /\ writers[w].pc = "committed"
         /\ ~writers[v].seen /\ ~writers[w].seen
         /\ writers[v].label = writers[w].label
         /\ writers[v].name = writers[w].name)
        => Cardinality(MatchNodes(graph, writers[w].label, "name",
                                  writers[w].name)) = 1

\* the same, of the two labels the setup declares a constraint on
AtomicMergeDeclared ==
    \A v, w \in Writers :
        (/\ v # w
         /\ writers[v].pc = "committed" /\ writers[w].pc = "committed"
         /\ writers[v].label = writers[w].label
         /\ writers[v].label \in {"Concept", "SubConcept"}
         /\ writers[v].name = writers[w].name)
        => Cardinality(MatchNodes(graph, writers[w].label, "name",
                                  writers[w].name)) = 1

\* the relationships of g among the types
RelsOfTypes(g, types) ==
    {r \in BagToSet(g.rels) : r.type \in types}

\* every node of g is a node of h, with its label and identity, and between
\* any two nodes h has as many relationships of a type as g or more
Kept(g, h) ==
    /\ Len(h.nodes) >= Len(g.nodes)
    /\ \A n \in DOMAIN g.nodes :
          /\ h.nodes[n].label = g.nodes[n].label
          /\ NodeKey(h.nodes[n]) = NodeKey(g.nodes[n])
    /\ \A r \in BagToSet(g.rels) :
          SumCopies(h.rels, MatchRels(h, r.type, r.src, r.dst))
             >= SumCopies(g.rels, MatchRels(g, r.type, r.src, r.dst))

\* C31: a step that is not a clear_all_data call removes no node and no edge,
\* a step of an ingest call leaves the ATTEMPTED and MASTERED edges as they
\* were, and a clear_all_data call that does not raise leaves no node and no
\* edge
C31_OnlyClearDeletes ==
    [][/\ reply' = reply => Kept(graph, graph')
       /\ txlog' # txlog =>
             /\ RelsOfTypes(graph', {"ATTEMPTED", "MASTERED"})
                   = RelsOfTypes(graph, {"ATTEMPTED", "MASTERED"})
             /\ \A r \in RelsOfTypes(graph, {"ATTEMPTED", "MASTERED"}) :
                   CopiesIn(r, graph'.rels) = CopiesIn(r, graph.rels)
       /\ (reply' # reply /\ reply'.err = "") => graph' = EmptyGraph]_vars

\* clear_all_data returned on a store an ingest call had written items to
\* and a student had attempted a question of, and nothing is left
C31_Witness ==
    /\ reply # NoReply
    /\ reply.op = "clear_all_data"
    /\ reply.err = ""
    /\ pc = "returned"
    /\ processed_items > 0
    /\ graph = EmptyGraph

\* an ingest call returned after a student attempted and mastered a question
\* of an earlier call, and the edges are there
C31_WitnessReingest ==
    /\ pc = "returned"
    /\ runs = 2
    /\ processed_items > 0
    /\ reply = NoReply
    /\ RelsOfTypes(graph, {"ATTEMPTED"}) # {}
    /\ RelsOfTypes(graph, {"MASTERED"}) # {}

\* the questions of the id that are in the student's unmastered results
UnmasteredIds(g, sid, qid) ==
    Unmastered(g, sid) \cap MatchNodes(g, "Question", "id", qid)

\* C32: no step of a complete_question(S, Q, False) call changes the MASTERED
\* edges, to questions or to sub-concepts, a question Q in the unmastered
\* results of S stays there, and when the call returns for a student and a
\* question that exist there is exactly one ATTEMPTED edge S->Q
C32_AttemptOnly ==
    [][(cq.pc \in {"attempted", "mastered", "subconcepts", "commit"}
          /\ ~cq.is_mastered) =>
            /\ RelsOfTypes(graph', {"MASTERED"}) = RelsOfTypes(graph, {"MASTERED"})
            /\ \A r \in RelsOfTypes(graph, {"MASTERED"}) :
                  CopiesIn(r, graph'.rels) = CopiesIn(r, graph.rels)
            /\ UnmasteredIds(graph, cq.student_id, cq.question_id)
                  \subseteq UnmasteredIds(graph', cq.student_id, cq.question_id)
            /\ cq'.pc = "done" =>
                  \A s \in MatchNodes(graph', "Student", "student_id", cq.student_id),
                     q \in MatchNodes(graph', "Question", "id", cq.question_id) :
                      SumCopies(graph'.rels, MatchRels(graph', "ATTEMPTED", s, q)) = 1
      ]_vars

\* complete_question(S, Q, False) returned for a registered student and an
\* ingested question the student had no edge to: the ATTEMPTED edge is there
\* and the question is still unmastered
C32_Witness ==
    /\ cq.pc = "done"
    /\ ~cq.is_mastered
    /\ cq.before.types = {}
    /\ \E s \in MatchNodes(graph, "Student", "student_id", cq.student_id),
          q \in UnmasteredIds(graph, cq.student_id, cq.question_id) :
          MatchRels(graph, "ATTEMPTED", s, q) # {}

\* C33: a populate_from_json_file call on a file whose array holds an
\* element that is not an object raises DataValidationError and leaves the
\* graph as it found it
C33_FailFastNonObjects ==
    [][(/\ reply' # reply
        /\ reply'.op = "populate_from_json_file"
        /\ \E n \in DOMAIN reply'.args[1] : ~IsObject(reply'.args[1][n]))
            => /\ reply'.err = "DataValidationError"
               /\ graph' = graph]_vars

\* the part of it about the graph, of the files whose non-object element is
\* not the list of the field names
FailFastNoWrite ==
    [][(/\ reply' # reply
        /\ reply'.op = "populate_from_json_file"
        /\ \E n \in DOMAIN reply'.args[1] : ~IsObject(reply'.args[1][n])
        /\ \A n \in DOMAIN reply'.args[1] : reply'.args[1][n] # ElemFieldList)
            => /\ reply'.err # ""
               /\ graph' = graph]_vars

\* C34: at most one driver is open at a time, the manager holds a driver
\* exactly when one is open, and when main has ended, by a return or by an
\* exception that goes on to its caller, no driver is open
C34_ConnectionLifecycle ==
    /\ app.live \in {0, 1}
    /\ app.live = 1 <=> driver # "None"
    /\ app.pc \in {"returned", "propagated"} => (driver = "None" /\ app.live = 0)

\* main ended by an exception its except clause does not name, raised after
\* the connection was initialized, with the driver closed
C34_Witness ==
    /\ app.pc = "propagated"
    /\ app.exit = "FileNotFoundError"
    /\ conn_error = ""
    /\ driver = "None"
    /\ app.live = 0

\* main ended by a return after initialize_connection found the manager
\* initialized by an earlier call, and after all its calls returned
C34_WitnessReturn ==
    /\ app.pc = "returned"
    /\ app.exit = ""
    /\ driver = "None"
    /\ MatchNodes(graph, "Student", "student_id", "s1") # {}

\* C35: after an initialize_connection that raised DatabaseConnectionError
\* the manager has no driver: get_driver and get_session raise
\* DatabaseConnectionError, and an initialize_connection that follows makes
\* a driver
C35_FailedInitLeavesUninitialized ==
    conn_error = "DatabaseConnectionError" =>
        /\ driver = "None"
        /\ ManagerCall("get_driver", driver, reachable).err
              = "DatabaseConnectionError"
        /\ ManagerCall("get_session", driver, reachable).err
              = "DatabaseConnectionError"
        /\ InitializeDriver(driver, TRUE, app.live).live = app.live + 1

\* the student or the question a complete_question call names has no node
UnknownIdentity(g, sid, qid) ==
    \/ MatchNodes(g, "Student", "student_id", sid) = {}
    \/ MatchNodes(g, "Question", "id", qid) = {}

C36_WitnessNoStudent ==
    /\ cq.pc = "done"
    /\ cq.is_mastered
    /\ MatchNodes(graph, "Student", "student_id", cq.student_id) = {}
    /\ MatchNodes(graph, "Question", "id", cq.question_id) # {}
    /\ RelsOfTypes(graph, {"ATTEMPTED", "MASTERED"}) = {}

\* C37: whatever integer the batch size is, when a call returns a report
\* one transaction was run for each valid item of the input and the
\* processed and failed counts add up to the number of valid items
C37_NoSilentDrop ==
    pc = "returned" =>
        /\ stats.processed_items + stats.failed_items = Len(valid_data)
        /\ Len(RunLog) = Len(valid_data)
        /\ \A n \in DOMAIN valid_data :
              Cardinality({m \in DOMAIN RunLog : RunLog[m].item = valid_data[n]}) = 1

\* the part of it about the batch size 0: the call raises and gives no report
ZeroBatchRaises ==
    batch_size = 0 => (pc = "raised" /\ raised = "ValueError" /\ ~stats.returned)


=============================================================================
